---- MODULE Spec2Model ----
(***************************************************************************)
(* Fantasy golf league tracker (src/fantasy_golf.py): results ingestion,   *)
(* status reconciliation, top-3 scoring and the operator actions on the    *)
(* season store.                                                           *)
(*                                                                         *)
(* Money is modelled as naturals, golfer / team / tournament names as      *)
(* strings, a result map as a function from the golfers that have an       *)
(* entry to [prize, status] records.                                       *)
(***************************************************************************)
EXTENDS Integers, Sequences, FiniteSets, TLC

VARIABLES
    teams,             \* data["teams"]: team name -> list of golfer names
    tournaments,       \* data["tournaments"]: name -> result map (the "results" dict)
    tournament_order,  \* data["tournament_order"] when it is a list
    order_is_list,     \* FALSE while data["tournament_order"] is the {} of a fresh store
    data_file,         \* DATA_FILE: [written, data], data being what load_data reads back
    live_players,      \* st.session_state.live_players
    live_payout,       \* st.session_state.live_payout: position -> prize
    live_status,       \* st.session_state.live_status
    call,              \* arguments of the function call in progress (pure-function runs)
    ret,               \* its return value
    pc                 \* "idle" before the call, "returned" after it

vars == <<teams, tournaments, tournament_order, order_is_list, data_file,
          live_players, live_payout, live_status, call, ret, pc>>
storeVars == <<teams, tournaments, tournament_order, order_is_list>>
fileVars == <<data_file>>
sessionVars == <<live_players, live_payout, live_status>>
callVars == <<call, ret, pc>>

----------------------------------------------------------------------------
\* Bounds of the model

MaxPrize == 2      \* prizes range over 0..MaxPrize
MaxRoster == 4     \* longest roster handed to the scoring function
MaxMoney == 1      \* amounts in source documents range over 0..MaxMoney
MaxPlayers == 2    \* most rows of a results article / competitors of a feed
MaxField == 3      \* most competitors of a feed in the position runs
MaxTables == 2     \* most tables of a payout document

\* Program constants
TopN == 3          \* earnings[:3]
Unplaced == 999    \* position when none was parsed

Golfers == {"A", "B", "C", "D"}
Prizes == 0..MaxPrize
Statuses == {"scored", "cut", "wd", "not_entered", "unknown_absent"}

EmptyMap == [x \in {} |-> 0]

\* DATA_FILE.  Without a file load_data returns the empty store with
\* tournament_order {} and an empty cached payout.
NoFile ==
    [written |-> FALSE,
     data |-> [teams |-> EmptyMap, tournaments |-> EmptyMap, tournament_order |-> <<>>,
               order_is_list |-> FALSE, payout |-> EmptyMap]]

Min(a, b) == IF a < b THEN a ELSE b

SeqsUpTo(S, n) == UNION {[1..k -> S] : k \in 0..n}

RECURSIVE SumPrizes(_)
SumPrizes(pairs) ==
    IF pairs = <<>> THEN 0 ELSE Head(pairs)[2] + SumPrizes(Tail(pairs))

----------------------------------------------------------------------------
\* Text: a Python str is a sequence of one-character strings

Digits == <<"0", "1", "2", "3", "4", "5", "6", "7", "8", "9">>
IsDigit(c) == \E i \in 1..Len(Digits) : Digits[i] = c
DigitValue(c) == (CHOOSE i \in 1..Len(Digits) : Digits[i] = c) - 1

Upper == <<"A", "B", "C", "D", "E", "F", "G", "H", "I", "J", "K", "L", "M",
           "N", "O", "P", "Q", "R", "S", "T", "U", "V", "W", "X", "Y", "Z">>
Lower == <<"a", "b", "c", "d", "e", "f", "g", "h", "i", "j", "k", "l", "m",
           "n", "o", "p", "q", "r", "s", "t", "u", "v", "w", "x", "y", "z">>
LowerChar(c) ==
    IF \E i \in 1..Len(Upper) : Upper[i] = c
    THEN Lower[CHOOSE i \in 1..Len(Upper) : Upper[i] = c]
    ELSE c

\* str.lower()
ToLower(text) == [i \in 1..Len(text) |-> LowerChar(text[i])]

\* pattern in text
Contains(text, pattern) ==
    \E i \in 1..(Len(text) - Len(pattern) + 1) :
        SubSeq(text, i, i + Len(pattern) - 1) = pattern

\* re.sub(r"[^\d]", "", text)
DigitsOnly(text) == SelectSeq(text, IsDigit)

\* int() of a non-empty string of digits
RECURSIVE DigitsToInt(_)
DigitsToInt(ds) ==
    IF ds = <<>> THEN 0
    ELSE 10 * DigitsToInt(SubSeq(ds, 1, Len(ds) - 1)) + DigitValue(ds[Len(ds)])

\* str() of a natural number
RECURSIVE IntToText(_)
IntToText(n) ==
    IF n < 10 THEN <<Digits[n + 1]>>
    ELSE IntToText(n \div 10) \o <<Digits[(n % 10) + 1]>>

----------------------------------------------------------------------------
\* Result entries

get_prize(entry) == entry.prize
get_status(entry) == entry.status

Entry(p, s) == [prize |-> p, status |-> s]

----------------------------------------------------------------------------
\* Results-article extractor: scrape_pga_results_article, per data row.
\* A row is [name, position_display, prize]: the name cell, the text of the
\* position cell (<<>> when the table has no position column) and the amount
\* parsed from the money cell.

ArticlePosition(pos_display) ==
    IF DigitsOnly(pos_display) = <<>> THEN Unplaced
    ELSE DigitsToInt(DigitsOnly(pos_display))

\* the withdrawal markers tested before the cut markers
ArticleStatus_wd_first(pos_display, prize, pos_int) ==
    LET pd_lower == ToLower(pos_display)
    IN IF \/ Contains(pd_lower, <<"w", "d">>)
          \/ Contains(pd_lower, <<"d", "q">>)
          \/ Contains(pd_lower, <<"w", "/", "d">>)
          \/ Contains(pd_lower, <<"d", "i", "s", "q">>)
       THEN "wd"
       ELSE IF Contains(pd_lower, <<"c", "u", "t">>) \/ Contains(pd_lower, <<"m", "c">>)
       THEN "cut"
       ELSE IF prize > 0 \/ pos_int < Unplaced THEN "scored"
       ELSE "cut"

ArticleStatus(pos_display, prize, pos_int) ==
    LET pd_lower == ToLower(pos_display)
    IN IF Contains(pd_lower, <<"c", "u", "t">>) \/ Contains(pd_lower, <<"m", "c">>)
       THEN "cut"
       ELSE IF \/ Contains(pd_lower, <<"w", "d">>)
               \/ Contains(pd_lower, <<"d", "q">>)
               \/ Contains(pd_lower, <<"w", "/", "d">>)
               \/ Contains(pd_lower, <<"d", "i", "s", "q">>)
       THEN "wd"
       ELSE IF prize > 0 \/ pos_int < Unplaced THEN "scored"
       ELSE "cut"

ArticlePlayer(row) ==
    [name |-> row.name,
     position |-> ArticlePosition(row.position_display),
     position_display |-> row.position_display,
     prize |-> row.prize,
     status |-> ArticleStatus(row.position_display, row.prize,
                              ArticlePosition(row.position_display))]

scrape_pga_results_article(rows) == [i \in 1..Len(rows) |-> ArticlePlayer(rows[i])]

\* Import page, after a fetch: the session's player list and payout table.
\* {**p, "espn_status": p["status"], ...}
ImportedPlayers(result_players) ==
    [i \in 1..Len(result_players) |->
        [name |-> result_players[i].name,
         position |-> result_players[i].position,
         position_display |-> result_players[i].position_display,
         prize |-> result_players[i].prize,
         status |-> result_players[i].status,
         espn_status |-> result_players[i].status]]

\* {p["position"]: p["prize"] for p in result_players if p["prize"] > 0}:
\* for a position listed more than once the last row wins.
ImportedPayout(result_players) ==
    LET paid == {i \in 1..Len(result_players) : result_players[i].prize > 0}
        positions == {result_players[i].position : i \in paid}
        last(pos) == CHOOSE i \in paid :
                        /\ result_players[i].position = pos
                        /\ \A j \in paid : result_players[j].position = pos => j <= i
    IN [pos \in positions |-> result_players[last(pos)].prize]

----------------------------------------------------------------------------
\* Live-feed extractor: fetch_espn_leaderboard, from the per-competitor
\* records on. A competitor is [name, score, espn_status, position_display]:
\* the display name, the score text, the in-field status and ESPN's own
\* position label (<<>> when blank).

NonNumericScore == 9999

AllDigits(text) == text # <<>> /\ \A i \in 1..Len(text) : IsDigit(text[i])

_score_to_int(score_str) ==
    IF score_str \in {<<"E">>, <<"e">>, <<"E", "V", "E", "N">>,
                      <<"e", "v", "e", "n">>, <<"0">>} THEN 0
    ELSE IF AllDigits(score_str) THEN DigitsToInt(score_str)
    ELSE IF Len(score_str) > 1 /\ score_str[1] = "+" /\ AllDigits(Tail(score_str))
         THEN DigitsToInt(Tail(score_str))
    ELSE IF Len(score_str) > 1 /\ score_str[1] = "-" /\ AllDigits(Tail(score_str))
         THEN 0 - DigitsToInt(Tail(score_str))
    ELSE NonNumericScore

\* players.append({...}) with the placeholder position
CompetitorRecord(c) ==
    [name |-> c.name,
     position |-> Unplaced,
     position_display |-> c.position_display,
     score |-> c.score,
     score_int |-> _score_to_int(c.score),
     espn_status |-> c.espn_status]

\* active.sort(key=lambda x: x["score_int"]): stable, ascending
RECURSIVE InsertByScore(_, _)
InsertByScore(sorted, p) ==
    IF sorted = <<>> THEN <<p>>
    ELSE IF Head(sorted).score_int <= p.score_int
         THEN <<Head(sorted)>> \o InsertByScore(Tail(sorted), p)
         ELSE <<p>> \o sorted

RECURSIVE SortByScore(_)
SortByScore(ps) ==
    IF ps = <<>> THEN <<>>
    ELSE InsertByScore(SortByScore(SubSeq(ps, 1, Len(ps) - 1)), ps[Len(ps)])

\* dense ranking: the position after a tie is the tied position plus one
RECURSIVE AssignPositions_dense(_, _)
AssignPositions_dense(active, k) ==
    IF k = 0 THEN <<>>
    ELSE LET done == AssignPositions_dense(active, k - 1)
             p == active[k]
             tiedPrev == k > 1 /\ active[k - 1].score_int = p.score_int
             tiedNext == k + 1 <= Len(active) /\ active[k + 1].score_int = p.score_int
             rank == IF k = 1 THEN 1 ELSE done[k - 1].position + 1
         IN IF tiedPrev
            THEN Append(done, [p EXCEPT !.position = done[k - 1].position,
                                        !.position_display = done[k - 1].position_display])
            ELSE Append(done, [p EXCEPT !.position = rank,
                                        !.position_display =
                                            IF tiedNext THEN <<"T">> \o IntToText(rank)
                                            ELSE IntToText(rank)])

\* The position loop over the sorted active players, first k players done.
\* rank starts at 1 and grows by one per player, so it is i at player i.
RECURSIVE AssignPositions(_, _)
AssignPositions(active, k) ==
    IF k = 0 THEN <<>>
    ELSE LET done == AssignPositions(active, k - 1)
             p == active[k]
             tiedPrev == k > 1 /\ active[k - 1].score_int = p.score_int
             tiedNext == k + 1 <= Len(active) /\ active[k + 1].score_int = p.score_int
         IN IF tiedPrev
            THEN Append(done, [p EXCEPT !.position = done[k - 1].position,
                                        !.position_display = done[k - 1].position_display])
            ELSE Append(done, [p EXCEPT !.position = k,
                                        !.position_display =
                                            IF tiedNext \/ tiedPrev
                                            THEN <<"T">> \o IntToText(k)
                                            ELSE IntToText(k)])

\* every cut / WD player at a rank of its own
PlaceInactive_own_rank(inactive, cut_rank) ==
    [i \in 1..Len(inactive) |->
        [inactive[i] EXCEPT
            !.position = cut_rank + i - 1,
            !.position_display =
                IF inactive[i].position_display # <<>>
                THEN inactive[i].position_display
                ELSE IF inactive[i].espn_status = "cut"
                     THEN <<"C", "U", "T">> ELSE <<"W", "D">>]]

\* cut / WD players at the bottom, all at len(active) + 1
PlaceInactive(inactive, cut_rank) ==
    [i \in 1..Len(inactive) |->
        [inactive[i] EXCEPT
            !.position = cut_rank,
            !.position_display =
                IF inactive[i].position_display # <<>>
                THEN inactive[i].position_display
                ELSE IF inactive[i].espn_status = "cut"
                     THEN <<"C", "U", "T">> ELSE <<"W", "D">>]]

IsActive(p) == p.espn_status = "active"
IsInactive(p) == p.espn_status # "active"

\* every active player at its own rank, no tie handling
fetch_espn_leaderboard_no_ties(competitors) ==
    LET players == [i \in 1..Len(competitors) |-> CompetitorRecord(competitors[i])]
        active == SortByScore(SelectSeq(players, IsActive))
        inactive == SelectSeq(players, IsInactive)
    IN [k \in 1..Len(active) |->
           [active[k] EXCEPT !.position = k, !.position_display = IntToText(k)]]
         \o PlaceInactive(inactive, Len(active) + 1)

\* active players ranked in feed order, without the sort by score
fetch_espn_leaderboard_unsorted(competitors) ==
    LET players == [i \in 1..Len(competitors) |-> CompetitorRecord(competitors[i])]
        active == SelectSeq(players, IsActive)
        inactive == SelectSeq(players, IsInactive)
    IN AssignPositions(active, Len(active))
         \o PlaceInactive(inactive, Len(active) + 1)

fetch_espn_leaderboard(competitors) ==
    LET players == [i \in 1..Len(competitors) |-> CompetitorRecord(competitors[i])]
        active == SortByScore(SelectSeq(players, IsActive))
        inactive == SelectSeq(players, IsInactive)
    IN AssignPositions(active, Len(active))
         \o PlaceInactive(inactive, Len(active) + 1)

----------------------------------------------------------------------------
\* Status reconciliation: build_results_from_espn

StatusText(st) ==
    CASE st = "wd" -> <<"w", "d">>
      [] st = "cut" -> <<"c", "u", "t">>
      [] st = "active" -> <<"a", "c", "t", "i", "v", "e">>
      [] st = "scored" -> <<"s", "c", "o", "r", "e", "d">>
      [] OTHER -> <<>>

\* a player without prize money taken as cut
espn_status_to_league_status_by_prize(espn_status, prize) ==
    IF espn_status = "wd" THEN "wd"
    ELSE IF espn_status = "cut" \/ prize = 0 THEN "cut"
    ELSE "scored"

espn_status_to_league_status(espn_status, prize) ==
    LET s == ToLower(StatusText(espn_status))
    IN IF \/ s = <<"w", "d">>
          \/ Contains(s, <<"w", "i", "t", "h", "d", "r", "a", "w">>)
          \/ Contains(s, <<"w", "i", "t", "h", "d", "r", "e", "w">>)
          \/ Contains(s, <<"d", "q">>)
          \/ Contains(s, <<"d", "i", "s", "q", "u", "a", "l", "i", "f">>)
       THEN "wd"
       ELSE IF \/ s = <<"c", "u", "t">>
               \/ Contains(s, <<"m", "c">>)
               \/ Contains(s, <<"m", "d", "f">>)
       THEN "cut"
       ELSE "scored"

\* payout_map.get(pos, 0.0)
PayoutGet(payout_map, pos) == IF pos \in DOMAIN payout_map THEN payout_map[pos] ELSE 0

HasPrize(p) == "prize" \in DOMAIN p

\* p.get("prize") or payout_map.get(pos, 0.0): a prize of 0 is falsy
PlayerPrize(p, payout_map) ==
    IF HasPrize(p) /\ p.prize # 0 THEN p.prize ELSE PayoutGet(payout_map, p.position)

\* p.get("espn_status") or p.get("status", "")
PlayerStatus(p) ==
    IF "espn_status" \in DOMAIN p /\ p.espn_status # "" THEN p.espn_status
    ELSE IF "status" \in DOMAIN p THEN p.status
    ELSE ""

PlayerEntry(p, payout_map) ==
    Entry(PlayerPrize(p, payout_map),
          espn_status_to_league_status(PlayerStatus(p), PlayerPrize(p, payout_map)))

PlayerNames(players) == {players[i].name : i \in 1..Len(players)}

\* results[p["name"]] = ... in list order: the last record of a name wins
LastRecord(players, name) ==
    players[CHOOSE i \in 1..Len(players) :
               /\ players[i].name = name
               /\ \A j \in 1..Len(players) : players[j].name = name => j <= i]

\* Variants with one step changed.
\* league golfers missing from the source are not added
build_results_source_only(players, payout_map, all_league_golfers) ==
    [g \in PlayerNames(players) |-> PlayerEntry(LastRecord(players, g), payout_map)]

\* league golfers missing from the source assumed not to have entered
build_results_absent_not_entered(players, payout_map, all_league_golfers) ==
    [g \in PlayerNames(players) \cup all_league_golfers |->
        IF g \in PlayerNames(players)
        THEN PlayerEntry(LastRecord(players, g), payout_map)
        ELSE Entry(0, "not_entered")]

build_results_from_espn(players, payout_map, all_league_golfers) ==
    [g \in PlayerNames(players) \cup all_league_golfers |->
        IF g \in PlayerNames(players)
        THEN PlayerEntry(LastRecord(players, g), payout_map)
        ELSE Entry(0, "unknown_absent")]

----------------------------------------------------------------------------
\* League logic: get_team_earnings_for_tournament

\* list.sort(key=lambda x: x[1], reverse=True): a stable sort, so pairs with
\* equal prize keep the order they had in the list.
RECURSIVE InsertDesc(_, _)
InsertDesc(sorted, e) ==
    IF sorted = <<>> THEN <<e>>
    ELSE IF Head(sorted)[2] >= e[2]
         THEN <<Head(sorted)>> \o InsertDesc(Tail(sorted), e)
         ELSE <<e>> \o sorted

RECURSIVE SortDescByPrize(_)
SortDescByPrize(pairs) ==
    IF pairs = <<>> THEN <<>>
    ELSE InsertDesc(SortDescByPrize(SubSeq(pairs, 1, Len(pairs) - 1)),
                    pairs[Len(pairs)])

\* [(g, prize) for g in team_golfers if g in results and prize > 0]
RECURSIVE EarningPairs(_, _)
EarningPairs(team_golfers, tournament_results) ==
    IF team_golfers = <<>> THEN <<>>
    ELSE LET g == Head(team_golfers)
             rest == EarningPairs(Tail(team_golfers), tournament_results)
         IN IF g \in DOMAIN tournament_results
               /\ get_prize(tournament_results[g]) > 0
            THEN <<<<g, get_prize(tournament_results[g])>>>> \o rest
            ELSE rest

\* Variants of the scoring function with one step changed.
RECURSIVE InsertAsc(_, _)
InsertAsc(sorted, e) ==
    IF sorted = <<>> THEN <<e>>
    ELSE IF Head(sorted)[2] <= e[2]
         THEN <<Head(sorted)>> \o InsertAsc(Tail(sorted), e)
         ELSE <<e>> \o sorted

RECURSIVE SortAscByPrize(_)
SortAscByPrize(pairs) ==
    IF pairs = <<>> THEN <<>>
    ELSE InsertAsc(SortAscByPrize(SubSeq(pairs, 1, Len(pairs) - 1)),
                   pairs[Len(pairs)])

\* reverse=True forgotten
earnings_sorted_ascending(team_golfers, tournament_results) ==
    LET earnings == SortAscByPrize(EarningPairs(team_golfers, tournament_results))
        top3 == SubSeq(earnings, 1, Min(TopN, Len(earnings)))
    IN [total |-> SumPrizes(top3), top3 |-> top3]

\* the slice taken before the sort
earnings_sliced_before_sort(team_golfers, tournament_results) ==
    LET earnings == EarningPairs(team_golfers, tournament_results)
        top3 == SortDescByPrize(SubSeq(earnings, 1, Min(TopN, Len(earnings))))
    IN [total |-> SumPrizes(top3), top3 |-> top3]

get_team_earnings_for_tournament(team_golfers, tournament_results) ==
    LET earnings == SortDescByPrize(EarningPairs(team_golfers, tournament_results))
        top3 == SubSeq(earnings, 1, Min(TopN, Len(earnings)))
    IN [total |-> SumPrizes(top3), top3 |-> top3]

----------------------------------------------------------------------------
\* Scoring runs: the scoring function applied to a roster and a result map

Rosters == SeqsUpTo(Golfers, MaxRoster)
PrizeMaps == UNION {[S -> [prize : Prizes, status : {"scored"}]] : S \in SUBSET Golfers}

InitEarnings ==
    /\ teams = EmptyMap
    /\ tournaments = EmptyMap
    /\ tournament_order = <<>>
    /\ order_is_list = TRUE
    /\ live_players = <<>>
    /\ live_payout = EmptyMap
    /\ live_status = ""
    /\ data_file = NoFile
    /\ \E r \in Rosters, m \in PrizeMaps :
          call = [team_golfers |-> r, tournament_results |-> m]
    /\ ret = [total |-> 0, top3 |-> <<>>]
    /\ pc = "idle"

Earn ==
    /\ pc = "idle"
    /\ ret' = get_team_earnings_for_tournament(call.team_golfers, call.tournament_results)
    /\ pc' = "returned"
    /\ UNCHANGED <<storeVars, fileVars, sessionVars, call>>

\* The same roster in another order (two neighbours exchanged), scored again.
Swap(s, i) == [s EXCEPT ![i] = s[i + 1], ![i + 1] = s[i]]

EarnPermuted(i) ==
    /\ pc = "returned"
    /\ i \in 1..(Len(call.team_golfers) - 1)
    /\ call' = [call EXCEPT !.team_golfers = Swap(call.team_golfers, i)]
    /\ ret' = get_team_earnings_for_tournament(call'.team_golfers, call.tournament_results)
    /\ UNCHANGED <<storeVars, fileVars, sessionVars, pc>>

NextEarnings ==
    \/ Earn
    \/ \E i \in 1..(MaxRoster - 1) : EarnPermuted(i)

SpecEarnings == InitEarnings /\ [][NextEarnings]_vars

PrizesOf(pairs) == [i \in 1..Len(pairs) |-> pairs[i][2]]
RosterSet(team_golfers) == {team_golfers[i] : i \in 1..Len(team_golfers)}

\* C3: the contributing list has at most 3 pairs, each with prize > 0, in
\* non-increasing prize order, and the total is the sum of the listed prizes.
C3_Top3Shape ==
    pc = "returned" =>
        /\ Len(ret.top3) <= 3
        /\ \A i \in 1..Len(ret.top3) : ret.top3[i][2] > 0
        /\ \A i \in 1..(Len(ret.top3) - 1) : ret.top3[i][2] >= ret.top3[i + 1][2]
        /\ ret.total = SumPrizes(ret.top3)

C3_Witness ==
    /\ pc = "returned"
    /\ Len(call.team_golfers) = 4
    /\ Cardinality(RosterSet(call.team_golfers)) = 4
    /\ \A g \in Golfers : g \in DOMAIN call.tournament_results
                             /\ call.tournament_results[g].prize > 0
    /\ call.tournament_results[call.team_golfers[1]].prize
         < call.tournament_results[call.team_golfers[4]].prize
    /\ Len(ret.top3) = 3
    /\ ret.top3[1][2] > ret.top3[3][2]

\* C4 as claimed: scoring the same roster in another order returns the same
\* total and the same contributing list.
C4_PermutationSameList ==
    [][(pc = "returned" /\ pc' = "returned") => ret' = ret]_vars

\* No two roster entries with a positive prize have the same prize.
NoPrizeTie(team_golfers, tournament_results) ==
    \A i, j \in 1..Len(team_golfers) :
        (/\ i # j
         /\ team_golfers[i] \in DOMAIN tournament_results
         /\ team_golfers[j] \in DOMAIN tournament_results
         /\ tournament_results[team_golfers[i]].prize > 0)
        => tournament_results[team_golfers[i]].prize
             # tournament_results[team_golfers[j]].prize

\* C4 as amended: scoring the same roster in another order returns the same
\* total and the same sequence of prizes; the contributing list itself is the
\* same when no two roster entries tie on a positive prize.
C4_PermutationSameTotal ==
    [][(pc = "returned" /\ pc' = "returned") =>
          /\ ret'.total = ret.total
          /\ PrizesOf(ret'.top3) = PrizesOf(ret.top3)
          /\ (NoPrizeTie(call.team_golfers, call.tournament_results) => ret' = ret)]_vars

\* Four distinct golfers scored again after an exchange, three of them tied
\* on the third-highest prize: the golfer listed third has changed.
C4_Witness ==
    /\ pc = "returned"
    /\ Len(call.team_golfers) = 4
    /\ Cardinality(RosterSet(call.team_golfers)) = 4
    /\ \A g \in Golfers : g \in DOMAIN call.tournament_results
                             /\ call.tournament_results[g].prize = 1
    /\ ret.total = 3
    /\ ret.top3[3][1] = "D"

\* The top-3 rule over the team's golfers: the sum of the k largest prizes
\* among the golfers of a set, each golfer counted once.
RECURSIVE SumOfBest(_, _, _)
SumOfBest(S, tournament_results, k) ==
    IF k = 0 \/ S = {} THEN 0
    ELSE LET best == CHOOSE g \in S :
                        \A h \in S : tournament_results[g].prize
                                        >= tournament_results[h].prize
         IN tournament_results[best].prize
              + SumOfBest(S \ {best}, tournament_results, k - 1)

Qualifying(team_golfers, tournament_results) ==
    {g \in RosterSet(team_golfers) :
        g \in DOMAIN tournament_results /\ tournament_results[g].prize > 0}

\* C5: the total is the sum of the prizes of the team's three highest-earning
\* golfers (all of them when fewer than three have prize > 0); absent and
\* zero-prize golfers do not contribute and no golfer contributes twice.
C5_TotalIsTopThreeGolfers ==
    pc = "returned" =>
        /\ ret.total = SumOfBest(Qualifying(call.team_golfers, call.tournament_results),
                                 call.tournament_results, TopN)
        /\ \A i, j \in 1..Len(ret.top3) : i # j => ret.top3[i][1] # ret.top3[j][1]
        /\ \A i \in 1..Len(ret.top3) :
              ret.top3[i][1] \in Qualifying(call.team_golfers, call.tournament_results)

----------------------------------------------------------------------------
\* Secondary reconciliation: apply_leaderboard_status

LbStatuses == {"cut", "wd", "active"}

\* The status an unknown_absent entry gets from leaderboard_status_map.get(golfer)
StatusFromLeaderboard(golfer, leaderboard_status_map) ==
    IF golfer \notin DOMAIN leaderboard_status_map THEN "not_entered"
    ELSE IF leaderboard_status_map[golfer] = "cut" THEN "cut"
    ELSE IF leaderboard_status_map[golfer] = "wd" THEN "wd"
    ELSE IF leaderboard_status_map[golfer] = "active" THEN "cut"
    ELSE "not_entered"

\* Variants with one branch changed.
\* 'active' left for the operator instead of being treated as a missed cut
apply_status_active_unresolved(results, leaderboard_status_map) ==
    [g \in DOMAIN results |->
        IF results[g].status # "unknown_absent" THEN results[g]
        ELSE IF g \in DOMAIN leaderboard_status_map
                /\ leaderboard_status_map[g] = "active" THEN results[g]
        ELSE [results[g] EXCEPT
                 !.status = StatusFromLeaderboard(g, leaderboard_status_map)]]

\* every non-scored entry looked up again, not only the unknown_absent ones
apply_status_to_all_unscored(results, leaderboard_status_map) ==
    [g \in DOMAIN results |->
        IF results[g].status = "scored" THEN results[g]
        ELSE [results[g] EXCEPT
                 !.status = StatusFromLeaderboard(g, leaderboard_status_map)]]

apply_leaderboard_status(results, leaderboard_status_map) ==
    [g \in DOMAIN results |->
        IF results[g].status # "unknown_absent" THEN results[g]
        ELSE [results[g] EXCEPT
                 !.status = StatusFromLeaderboard(g, leaderboard_status_map)]]

----------------------------------------------------------------------------
\* Field-status runs: apply_leaderboard_status applied to a result map and a
\* field-status map, then applied once more to what it returned.

FieldGolfers == {"A", "B", "C"}
ResultMaps(G) == UNION {[S -> [prize : Prizes, status : Statuses]] : S \in SUBSET G}
LbMaps(G) == UNION {[S -> LbStatuses] : S \in SUBSET G}

InitFieldStatus ==
    /\ teams = EmptyMap
    /\ tournaments = EmptyMap
    /\ tournament_order = <<>>
    /\ order_is_list = TRUE
    /\ live_players = <<>>
    /\ live_payout = EmptyMap
    /\ live_status = ""
    /\ data_file = NoFile
    /\ \E r \in ResultMaps(FieldGolfers), lb \in LbMaps(FieldGolfers) :
          call = [results |-> r, leaderboard_status_map |-> lb]
    /\ ret = <<>>
    /\ pc = "idle"

ApplyFieldStatus ==
    /\ pc = "idle"
    /\ ret' = <<apply_leaderboard_status(call.results, call.leaderboard_status_map)>>
    /\ pc' = "returned"
    /\ UNCHANGED <<storeVars, fileVars, sessionVars, call>>

ApplyFieldStatusAgain ==
    /\ pc = "returned"
    /\ ret' = Append(ret, apply_leaderboard_status(ret[1], call.leaderboard_status_map))
    /\ pc' = "returned_twice"
    /\ UNCHANGED <<storeVars, fileVars, sessionVars, call>>

NextFieldStatus == ApplyFieldStatus \/ ApplyFieldStatusAgain

SpecFieldStatus == InitFieldStatus /\ [][NextFieldStatus]_vars

NeedsReview(results) == {g \in DOMAIN results : results[g].status = "unknown_absent"}

\* C9: every needs_review entry becomes cut (field status cut), wd (withdrawn),
\* cut (active) or not_entered (golfer not in the field-status map) and keeps
\* its prize, so a prize of 0 is still 0; no entry is needs_review afterwards.
C9_FieldStatusMapping ==
    pc # "idle" =>
        /\ DOMAIN ret[1] = DOMAIN call.results
        /\ \A g \in NeedsReview(call.results) :
              /\ (g \notin DOMAIN call.leaderboard_status_map
                     => ret[1][g].status = "not_entered")
              /\ (g \in DOMAIN call.leaderboard_status_map =>
                     /\ call.leaderboard_status_map[g] = "cut" => ret[1][g].status = "cut"
                     /\ call.leaderboard_status_map[g] = "wd" => ret[1][g].status = "wd"
                     /\ call.leaderboard_status_map[g] = "active" => ret[1][g].status = "cut")
              /\ ret[1][g].prize = call.results[g].prize
              /\ (call.results[g].prize = 0 => ret[1][g].prize = 0)
        /\ NeedsReview(ret[1]) = {}

\* Three needs_review golfers with prize 0: one cut, one active, one not in
\* the field, classified cut, cut and not_entered.
C9_Witness ==
    /\ pc = "returned"
    /\ NeedsReview(call.results) = FieldGolfers
    /\ \A g \in FieldGolfers : call.results[g].prize = 0
    /\ DOMAIN call.leaderboard_status_map = {"A", "B"}
    /\ call.leaderboard_status_map["A"] = "wd"
    /\ call.leaderboard_status_map["B"] = "active"
    /\ ret[1]["A"].status = "wd"
    /\ ret[1]["B"].status = "cut"
    /\ ret[1]["C"].status = "not_entered"

\* C10: on a result map without needs_review entries the call changes nothing
\* (same golfers, same status, same prize), and a second call with the same
\* field-status map returns what the first returned.
C10_ResolvedIsNoOp ==
    /\ (pc # "idle" /\ NeedsReview(call.results) = {}) => ret[1] = call.results
    /\ pc = "returned_twice" => ret[2] = ret[1]

\* A resolved map naming golfers the field-status map knows otherwise, and a
\* map with a needs_review entry applied twice.
C10_Witness ==
    /\ pc = "returned_twice"
    /\ DOMAIN call.results = FieldGolfers
    /\ call.results["A"].status = "not_entered"
    /\ call.results["B"].status = "scored" /\ call.results["B"].prize = 0
    /\ call.results["C"].status = "unknown_absent"
    /\ DOMAIN call.leaderboard_status_map = FieldGolfers
    /\ call.leaderboard_status_map["A"] = "cut"
    /\ ret[1]["C"].status # "unknown_absent"
    /\ ret[2] = ret[1]

----------------------------------------------------------------------------
\* Reconciliation runs: a source document goes through its extractor and
\* build_results_from_espn, as on the import page (results article) and in
\* "Import as Final Results" (live feed).

SourceNames == {"A", "B"}
LeagueChoices == SUBSET {"A", "C"}
Money == 0..MaxMoney

ArticleDisplays == {<<"1">>, <<"T", "2">>, <<"C", "U", "T">>, <<>>}
ArticleRows == [name : SourceNames, position_display : ArticleDisplays, prize : Money]
Articles == SeqsUpTo(ArticleRows, MaxPlayers) \ {<<>>}

ScoreTexts == {<<"-", "1">>, <<"E">>, <<"-", "-">>}
FeedStatuses == {"active", "cut", "wd"}
Competitors == [name : SourceNames, score : ScoreTexts,
                espn_status : FeedStatuses, position_display : {<<>>}]
Feeds == SeqsUpTo(Competitors, MaxPlayers)

\* Purse tables: positions 1..n, amounts >= 1 that do not grow with the position
PurseTables ==
    {t \in UNION {[1..n -> 1..MaxMoney] : n \in 1..(MaxPlayers + 1)} :
        \A i \in DOMAIN t : i > 1 => t[i] <= t[i - 1]}

\* purses used with a results article: none, or one for the first one or
\* two positions
ArticlePurses == {t \in PurseTables : Len(t) <= 2} \cup {EmptyMap}

InitReconcile ==
    /\ teams = EmptyMap
    /\ tournaments = EmptyMap
    /\ tournament_order = <<>>
    /\ order_is_list = TRUE
    /\ live_players = <<>>
    /\ live_payout = EmptyMap
    /\ live_status = ""
    /\ data_file = NoFile
    /\ \/ \E rows \in Articles, league \in LeagueChoices :
             call = [source |-> "article", rows |-> rows, payout_from |-> "article",
                     purse |-> EmptyMap, all_league_golfers |-> league]
       \/ \E rows \in Articles, purse \in ArticlePurses,
                league \in LeagueChoices :
             call = [source |-> "article", rows |-> rows, payout_from |-> "purse",
                     purse |-> purse, all_league_golfers |-> league]
       \/ \E rows \in Feeds, purse \in PurseTables, league \in LeagueChoices :
             call = [source |-> "live", rows |-> rows, payout_from |-> "purse",
                     purse |-> purse, all_league_golfers |-> league]
    /\ ret = [players |-> <<>>, payout_map |-> EmptyMap, results |-> EmptyMap]
    /\ pc = "idle"

\* Fetch of a results article, then the preview of what will be saved.
ReconcileArticle ==
    /\ pc = "idle"
    /\ call.source = "article"
    /\ LET result_players == scrape_pga_results_article(call.rows)
           players == ImportedPlayers(result_players)
           payout_map == IF call.payout_from = "article"
                         THEN ImportedPayout(result_players) ELSE call.purse
       IN ret' = [players |-> players, payout_map |-> payout_map,
                  results |-> build_results_from_espn(players, payout_map,
                                                      call.all_league_golfers)]
    /\ pc' = "returned"
    /\ UNCHANGED <<storeVars, fileVars, sessionVars, call>>

\* Refresh of the live leaderboard, then "Import as Final Results".
ReconcileLive ==
    /\ pc = "idle"
    /\ call.source = "live"
    /\ LET players == fetch_espn_leaderboard(call.rows)
       IN ret' = [players |-> players, payout_map |-> call.purse,
                  results |-> build_results_from_espn(players, call.purse,
                                                      call.all_league_golfers)]
    /\ pc' = "returned"
    /\ UNCHANGED <<storeVars, fileVars, sessionVars, call>>

NextReconcile == ReconcileArticle \/ ReconcileLive

SpecReconcile == InitReconcile /\ [][NextReconcile]_vars

\* C1: every entry of the reconciled map with status cut, wd or not_entered
\* has prize 0.
C1_UnpaidStatusHasNoPrize ==
    pc = "returned" =>
        \A g \in DOMAIN ret.results :
            ret.results[g].status \in {"cut", "wd", "not_entered"}
                => ret.results[g].prize = 0

\* C6: a source player's prize is the explicit prize of the record when it
\* carries one (0 included), else the payout-table amount for its position,
\* 0 when the position is not in the table.
C6_ExplicitPrizeWins ==
    pc = "returned" =>
        \A g \in PlayerNames(ret.players) :
            LET p == LastRecord(ret.players, g)
            IN ret.results[g].prize =
                  IF HasPrize(p) THEN p.prize
                  ELSE IF p.position \in DOMAIN ret.payout_map
                       THEN ret.payout_map[p.position] ELSE 0

\* C7: the reconciled map has an entry for exactly the source players and
\* the league-roster golfers.
C7_KeysAreSourceAndLeague ==
    pc = "returned" =>
        DOMAIN ret.results = PlayerNames(ret.players) \cup call.all_league_golfers

\* A league golfer in the source, one absent from it, and a source player on
\* no roster: three entries.
C7_Witness ==
    /\ pc = "returned"
    /\ call.all_league_golfers = {"A", "C"}
    /\ PlayerNames(ret.players) = {"A", "B"}
    /\ DOMAIN ret.results = {"A", "B", "C"}
    /\ ret.results["C"].status = "unknown_absent"

----------------------------------------------------------------------------
\* The season store and the operator actions on it (admin session).
\* One team, one tournament name, one-row articles, two feeds, one purse.

TeamNames == {"X"}
TournamentNames == {"T1"}
StoreRosters == {<<"A">>, <<"A", "B">>}
StoreMoney == {0, 1}
StoreArticles ==
    {<<r>> : r \in [name : SourceNames,
                    position_display : {<<"1">>, <<"C", "U", "T">>},
                    prize : StoreMoney]}
StoreFeeds ==
    {<<[name |-> "A", score |-> <<"E">>, espn_status |-> "active",
        position_display |-> <<>>]>>,
     <<[name |-> "B", score |-> <<"E">>, espn_status |-> "active",
        position_display |-> <<>>],
       [name |-> "A", score |-> <<"E">>, espn_status |-> "cut",
        position_display |-> <<>>]>>}
StorePurses == {<<1, 1>>}
LiveMessage == "Round 1 - In Progress"

\* JSON backup.  json.dumps writes a dict as an object whose keys are
\* strings (an int key becomes its decimal text), a list as an array and a
\* number as its decimal text; json.load reads objects back as dicts with
\* string keys, arrays as lists and number texts as numbers.  The data
\* document is [teams, tournaments, tournament_order, order_is_list, payout],
\* payout being data["live_state"]["payout"]; order_is_list tells the list
\* from the {} of a fresh store.
json_dumps(data) ==
    [teams |-> data.teams,
     tournaments |->
        [t \in DOMAIN data.tournaments |->
            [g \in DOMAIN data.tournaments[t] |->
                [prize |-> IntToText(get_prize(data.tournaments[t][g])),
                 status |-> get_status(data.tournaments[t][g])]]],
     tournament_order |->
        IF data.order_is_list
        THEN [kind |-> "array", items |-> data.tournament_order]
        ELSE [kind |-> "object", items |-> <<>>],
     payout |->
        [k \in {IntToText(pos) : pos \in DOMAIN data.payout} |->
            IntToText(data.payout[DigitsToInt(k)])]]

\* the season order read as a list whatever was written
json_load_order_as_list(text) ==
    [teams |-> text.teams,
     tournaments |->
        [t \in DOMAIN text.tournaments |->
            [g \in DOMAIN text.tournaments[t] |->
                Entry(DigitsToInt(text.tournaments[t][g].prize),
                      text.tournaments[t][g].status)]],
     tournament_order |-> text.tournament_order.items,
     order_is_list |-> TRUE,
     payout |-> [k \in DOMAIN text.payout |-> DigitsToInt(text.payout[k])]]

json_load(text) ==
    [teams |-> text.teams,
     tournaments |->
        [t \in DOMAIN text.tournaments |->
            [g \in DOMAIN text.tournaments[t] |->
                Entry(DigitsToInt(text.tournaments[t][g].prize),
                      text.tournaments[t][g].status)]],
     tournament_order |-> text.tournament_order.items,
     order_is_list |-> text.tournament_order.kind = "array",
     payout |-> [k \in DOMAIN text.payout |-> DigitsToInt(text.payout[k])]]

\* load_data on an existing file: json.load, then the payout keys back to
\* integers
load_data(text) ==
    LET d == json_load(text)
    IN [d EXCEPT !.payout =
           [pos \in {DigitsToInt(k) : k \in DOMAIN d.payout} |->
               d.payout[IntToText(pos)]]]

\* json.dump(data, f), kept as what load_data reads back
WrittenFile(data) == [written |-> TRUE, data |-> load_data(json_dumps(data))]

\* save_live_state: data["live_state"]["payout"] = payout, then save_data
save_live_state(payout) ==
    data_file' = WrittenFile([teams |-> teams', tournaments |-> tournaments',
                              tournament_order |-> tournament_order',
                              order_is_list |-> order_is_list',
                              payout |-> payout])

\* save_data(data): data["live_state"] is the one read from the file or
\* set by the last save_live_state
save_data == save_live_state(data_file.data.payout)

BackupFiles ==
    {[teams |-> EmptyMap, tournaments |-> EmptyMap, tournament_order |-> <<>>,
      order_is_list |-> TRUE, payout |-> EmptyMap],
     [teams |-> [t \in {"X"} |-> <<"A">>],
      tournaments |-> [t \in {"T1"} |-> [g \in {"A"} |-> Entry(1, "scored")]],
      tournament_order |-> <<"T1">>,
      order_is_list |-> TRUE, payout |-> EmptyMap]}

Put(f, k, v) == [x \in DOMAIN f \cup {k} |-> IF x = k THEN v ELSE f[x]]
Remove(f, k) == [x \in DOMAIN f \ {k} |-> f[x]]
InSeq(x, seq) == \E i \in 1..Len(seq) : seq[i] = x

\* list.remove(x): the first occurrence
RemoveFirst(seq, x) ==
    LET i == CHOOSE k \in 1..Len(seq) :
                 seq[k] = x /\ \A j \in 1..(k - 1) : seq[j] # x
    IN SubSeq(seq, 1, i - 1) \o SubSeq(seq, i + 1, Len(seq))

\* set(g for gs in data["teams"].values() for g in gs)
AllLeagueGolfers(tm) == UNION {RosterSet(tm[t]) : t \in DOMAIN tm}

\* league golfers whose entry is unknown_absent
Unknowns(results, league) ==
    {g \in DOMAIN results : results[g].status = "unknown_absent" /\ g \in league}

\* the choices of the two classification forms, one per unknown golfer
ReviewChoices == {"cut", "not_entered", "wd"}
ClassifyUpdates(t) ==
    IF t \in DOMAIN tournaments
    THEN [Unknowns(tournaments[t], AllLeagueGolfers(teams)) -> ReviewChoices]
    ELSE {}

\* The store starts empty: without a data file tournament_order is {} (a
\* dict); an existing data file of an empty store loads with a list.
Init ==
    /\ teams = EmptyMap
    /\ tournaments = EmptyMap
    /\ tournament_order = <<>>
    /\ order_is_list \in BOOLEAN
    /\ live_players = <<>>
    /\ live_payout = EmptyMap
    /\ live_status = ""
    /\ data_file = IF order_is_list
                   THEN WrittenFile([teams |-> teams, tournaments |-> tournaments,
                                     tournament_order |-> tournament_order,
                                     order_is_list |-> TRUE, payout |-> EmptyMap])
                   ELSE NoFile
    /\ call = EmptyMap
    /\ ret = EmptyMap
    /\ pc = "idle"

\* --- Live Leaderboard page, import mode ---

FetchResults(rows) ==
    /\ DOMAIN teams # {}
    /\ LET result_players == scrape_pga_results_article(rows)
       IN /\ live_players' = ImportedPlayers(result_players)
          /\ live_payout' = ImportedPayout(result_players)
    /\ live_status' = "Final"
    /\ UNCHANGED <<storeVars, fileVars, callVars>>

\* tournament_order.append(name) on the {} of a fresh store raises
\* AttributeError before anything is written.
SaveToSeason(name, results) ==
    IF order_is_list
    THEN /\ tournament_order' = IF InSeq(name, tournament_order) THEN tournament_order
                                ELSE Append(tournament_order, name)
         /\ tournaments' = Put(tournaments, name, results)
         /\ UNCHANGED <<teams, order_is_list>>
         /\ save_data
    ELSE UNCHANGED <<storeVars, fileVars>>

SaveCompleted(import_name) ==
    /\ DOMAIN teams # {}
    /\ live_players # <<>>
    /\ live_status = "Final"
    /\ SaveToSeason(import_name,
                    build_results_from_espn(live_players, live_payout,
                                            AllLeagueGolfers(teams)))
    /\ UNCHANGED <<sessionVars, callVars>>

SetStatuses(results, updates) ==
    [g \in DOMAIN results |->
        IF g \in DOMAIN updates THEN [results[g] EXCEPT !.status = updates[g]]
        ELSE results[g]]

ReviewUnknowns(import_name, updates) ==
    /\ DOMAIN teams # {}
    /\ live_players # <<>>
    /\ live_status = "Final"
    /\ import_name \in DOMAIN tournaments
    /\ Unknowns(tournaments[import_name], AllLeagueGolfers(teams)) # {}
    /\ DOMAIN updates = Unknowns(tournaments[import_name], AllLeagueGolfers(teams))
    /\ tournaments' = [tournaments EXCEPT
                          ![import_name] = SetStatuses(tournaments[import_name], updates)]
    /\ UNCHANGED <<teams, tournament_order, order_is_list, sessionVars, callVars>>
    /\ save_data

\* --- Live Leaderboard page, live mode ---

\* "Load" when no payout is loaded resets live_status; "Load new payout"
\* replaces the table and leaves live_status alone.
LoadPayout(pm) ==
    /\ DOMAIN teams # {}
    /\ live_payout' = pm
    /\ live_status' = IF live_payout = EmptyMap THEN "" ELSE live_status
    /\ UNCHANGED <<storeVars, live_players, callVars>>
    /\ save_live_state(pm)

ClearPayout ==
    /\ DOMAIN teams # {}
    /\ live_payout # EmptyMap
    /\ live_payout' = EmptyMap
    /\ UNCHANGED <<storeVars, live_players, live_status, callVars>>
    /\ save_live_state(EmptyMap)

RefreshLeaderboard(competitors) ==
    /\ DOMAIN teams # {}
    /\ live_players' = fetch_espn_leaderboard(competitors)
    /\ live_status' = LiveMessage
    /\ UNCHANGED <<storeVars, fileVars, live_payout, callVars>>

SaveLive(iname) ==
    /\ DOMAIN teams # {}
    /\ live_players # <<>>
    /\ live_status # "Final"
    /\ live_payout # EmptyMap
    /\ SaveToSeason(iname,
                    build_results_from_espn(live_players, live_payout,
                                            AllLeagueGolfers(teams)))
    /\ UNCHANGED <<sessionVars, callVars>>

\* --- Tournaments page (needs a list order: get_ordered_tournaments adds
\* lists; needs a team: st.columns(min(len(teams), 3))) ---

TournamentsPage(selected_t) ==
    /\ order_is_list
    /\ DOMAIN teams # {}
    /\ selected_t \in DOMAIN tournaments

Recalculate(selected_t) ==
    /\ TournamentsPage(selected_t)
    /\ AllLeagueGolfers(teams) \ DOMAIN tournaments[selected_t] # {}
    /\ tournaments' =
          [tournaments EXCEPT ![selected_t] =
              [g \in DOMAIN tournaments[selected_t] \cup AllLeagueGolfers(teams) |->
                  IF g \in DOMAIN tournaments[selected_t]
                  THEN tournaments[selected_t][g]
                  ELSE Entry(0, "not_entered")]]
    /\ UNCHANGED <<teams, tournament_order, order_is_list, sessionVars, callVars>>
    /\ save_data

AutoClassify(selected_t, lb_status) ==
    /\ TournamentsPage(selected_t)
    /\ Unknowns(tournaments[selected_t], AllLeagueGolfers(teams)) # {}
    /\ lb_status # EmptyMap
    /\ tournaments' =
          [tournaments EXCEPT ![selected_t] =
              apply_leaderboard_status(tournaments[selected_t], lb_status)]
    /\ UNCHANGED <<teams, tournament_order, order_is_list, sessionVars, callVars>>
    /\ save_data

ManualClassify(selected_t, updates) ==
    /\ TournamentsPage(selected_t)
    /\ Unknowns(tournaments[selected_t], AllLeagueGolfers(teams)) # {}
    /\ DOMAIN updates = Unknowns(tournaments[selected_t], AllLeagueGolfers(teams))
    /\ tournaments' = [tournaments EXCEPT
                          ![selected_t] = SetStatuses(tournaments[selected_t], updates)]
    /\ UNCHANGED <<teams, tournament_order, order_is_list, sessionVars, callVars>>
    /\ save_data

\* every league golfer with prize 0 (or without an entry) is set back to
\* unknown_absent, then apply_leaderboard_status runs
Refreshed(results, league) ==
    [g \in DOMAIN results \cup league |->
        IF g \in league
        THEN IF g \notin DOMAIN results THEN Entry(0, "unknown_absent")
             ELSE IF get_prize(results[g]) = 0 THEN Entry(0, "unknown_absent")
             ELSE results[g]
        ELSE results[g]]

Reclassify(selected_t, lb_status) ==
    /\ TournamentsPage(selected_t)
    /\ lb_status # EmptyMap
    /\ tournaments' =
          [tournaments EXCEPT ![selected_t] =
              apply_leaderboard_status(
                  Refreshed(tournaments[selected_t], AllLeagueGolfers(teams)),
                  lb_status)]
    /\ UNCHANGED <<teams, tournament_order, order_is_list, sessionVars, callVars>>
    /\ save_data

\* --- Setup page ---

AddTeam(new_team_name, golfers) ==
    /\ golfers # <<>>
    /\ new_team_name \notin DOMAIN teams
    /\ teams' = Put(teams, new_team_name, golfers)
    /\ UNCHANGED <<tournaments, tournament_order, order_is_list, sessionVars, callVars>>
    /\ save_data

EditTeam(edit_team, golfers) ==
    /\ edit_team \in DOMAIN teams
    /\ teams' = [teams EXCEPT ![edit_team] = golfers]
    /\ UNCHANGED <<tournaments, tournament_order, order_is_list, sessionVars, callVars>>
    /\ save_data

DeleteTeam(edit_team) ==
    /\ edit_team \in DOMAIN teams
    /\ teams' = Remove(teams, edit_team)
    /\ UNCHANGED <<tournaments, tournament_order, order_is_list, sessionVars, callVars>>
    /\ save_data

\* The tournament is put into data["tournaments"] first; on the {} of a
\* fresh store the append then raises, with the tournament kept in memory.
CreateTournament(new_t_name) ==
    /\ new_t_name \notin DOMAIN tournaments
    /\ tournaments' = Put(tournaments, new_t_name, EmptyMap)
    /\ tournament_order' =
          IF order_is_list /\ ~InSeq(new_t_name, tournament_order)
          THEN Append(tournament_order, new_t_name) ELSE tournament_order
    /\ UNCHANGED <<teams, order_is_list, sessionVars, callVars>>
    /\ IF order_is_list THEN save_data ELSE UNCHANGED fileVars

\* Manual Entry / Edit form: one entry per league golfer, pre-filled with
\* the current entry (prize 0, not_entered when there is none); the operator
\* overwrites the fields of the golfers in DOMAIN edits (here of at most
\* one golfer per submit; a wider edit is a sequence of these).
FormResults(current, league, edits) ==
    [g \in league |->
        IF g \in DOMAIN edits THEN edits[g]
        ELSE IF g \in DOMAIN current
             THEN Entry(get_prize(current[g]), get_status(current[g]))
             ELSE Entry(0, "not_entered")]

FormEdits(league) ==
    UNION {[S -> [prize : StoreMoney, status : Statuses]] :
              S \in {T \in SUBSET league : Cardinality(T) <= 1}}

SaveResults(edit_t, edits) ==
    /\ order_is_list
    /\ DOMAIN teams # {}
    /\ edit_t \in DOMAIN tournaments
    /\ edits \in FormEdits(AllLeagueGolfers(teams))
    /\ tournaments' = [tournaments EXCEPT
                          ![edit_t] = FormResults(tournaments[edit_t],
                                                  AllLeagueGolfers(teams), edits)]
    /\ UNCHANGED <<teams, tournament_order, order_is_list, sessionVars, callVars>>
    /\ save_data

DeleteTournament(del_t) ==
    /\ order_is_list
    /\ del_t \in DOMAIN tournaments
    /\ tournaments' = Remove(tournaments, del_t)
    /\ tournament_order' = IF InSeq(del_t, tournament_order)
                            THEN RemoveFirst(tournament_order, del_t)
                            ELSE tournament_order
    /\ UNCHANGED <<teams, order_is_list, sessionVars, callVars>>
    /\ save_data

\* st.session_state.data = imported, save_data(imported): the whole store is
\* replaced and the uploaded document, its live_state included, written.  The
\* uploader is drawn after the edit form, whose get_ordered_tournaments
\* fails on the {} order once a tournament exists.
Restore(uploaded) ==
    /\ order_is_list \/ tournaments = EmptyMap
    /\ LET imported == json_load(uploaded)
       IN /\ teams' = imported.teams
          /\ tournaments' = imported.tournaments
          /\ tournament_order' = imported.tournament_order
          /\ order_is_list' = imported.order_is_list
          /\ save_live_state(load_data(uploaded).payout)

UploadBackup(uploaded) ==
    /\ Restore(uploaded)
    /\ UNCHANGED <<sessionVars, callVars>>

Next ==
    \/ \E rows \in StoreArticles : FetchResults(rows)
    \/ \E n \in TournamentNames : SaveCompleted(n)
    \/ \E n \in TournamentNames : \E u \in ClassifyUpdates(n) : ReviewUnknowns(n, u)
    \/ \E pm \in StorePurses : LoadPayout(pm)
    \/ ClearPayout
    \/ \E f \in StoreFeeds : RefreshLeaderboard(f)
    \/ \E n \in TournamentNames : SaveLive(n)
    \/ \E t \in TournamentNames : Recalculate(t)
    \/ \E t \in TournamentNames, lb \in LbMaps(SourceNames) : AutoClassify(t, lb)
    \/ \E t \in TournamentNames : \E u \in ClassifyUpdates(t) : ManualClassify(t, u)
    \/ \E t \in TournamentNames, lb \in LbMaps(SourceNames) : Reclassify(t, lb)
    \/ \E n \in TeamNames, r \in StoreRosters : AddTeam(n, r)
    \/ \E n \in TeamNames, r \in StoreRosters \cup {<<>>} : EditTeam(n, r)
    \/ \E n \in TeamNames : DeleteTeam(n)
    \/ \E n \in TournamentNames : CreateTournament(n)
    \/ \E t \in TournamentNames, e \in FormEdits(SourceNames) : SaveResults(t, e)
    \/ \E t \in TournamentNames : DeleteTournament(t)
    \/ \E b \in BackupFiles : UploadBackup(json_dumps(b))

Spec == Init /\ [][Next]_vars

----------------------------------------------------------------------------
\* Claims on the season store.

\* C2: in every reachable store state, every stored entry with a prize
\* above 0 has status scored.
C2_PaidEntryIsScored ==
    \A t \in DOMAIN tournaments : \A g \in DOMAIN tournaments[t] :
        get_prize(tournaments[t][g]) > 0 => get_status(tournaments[t][g]) = "scored"

\* a step that saves an import (completed or live) as tournament n
ImportSaved(n) == order_is_list /\ (SaveCompleted(n) \/ SaveLive(n))

\* league golfers absent from the imported source are stored as
\* unknown_absent with prize 0
AbsentNeedReview ==
    \A n \in TournamentNames :
        ImportSaved(n) =>
            \A g \in AllLeagueGolfers(teams) \ PlayerNames(live_players) :
                /\ g \in DOMAIN tournaments'[n]
                /\ tournaments'[n][g] = Entry(0, "unknown_absent")

EntryKept(t, g) ==
    /\ t \in DOMAIN tournaments'
    /\ g \in DOMAIN tournaments'[t]
    /\ tournaments'[t][g] = tournaments[t][g]

\* the operations on tournament t that may change a needs-review entry:
\* secondary reconciliation, manual classification or edit, re-import, deletion
ChangesEntries(t) ==
    \/ \E lb \in LbMaps(SourceNames) : AutoClassify(t, lb) \/ Reclassify(t, lb)
    \/ \E u \in ClassifyUpdates(t) : ManualClassify(t, u) \/ ReviewUnknowns(t, u)
    \/ \E e \in FormEdits(SourceNames) : SaveResults(t, e)
    \/ SaveCompleted(t) \/ SaveLive(t)
    \/ DeleteTournament(t)

NeedsReviewKept(WholeStoreReplaced) ==
    \A t \in DOMAIN tournaments : \A g \in DOMAIN tournaments[t] :
        get_status(tournaments[t][g]) = "unknown_absent" =>
            \/ EntryKept(t, g)
            \/ ChangesEntries(t)
            \/ WholeStoreReplaced

\* C8 as stated: a saved import gives every league golfer absent from the
\* source an entry needs-review with prize 0, and such an entry stays as it
\* is in every step except a secondary reconciliation, a manual
\* classification or edit, a re-import or a deletion of that tournament.
C8_NeedsReviewUntilResolved ==
    [][AbsentNeedReview /\ NeedsReviewKept(FALSE)]_vars

\* C8 (amended): ... or the upload of a backup file, which replaces the
\* whole store.
C8_NeedsReviewUntilResolvedOrRestored ==
    [][AbsentNeedReview
       /\ NeedsReviewKept(\E b \in BackupFiles : UploadBackup(json_dumps(b)))]_vars

\* an imported tournament holds a needs-review entry of a golfer absent from
\* the source, and the roster has been edited since without touching it
C8_Witness ==
    /\ live_players # <<>>
    /\ live_status = "Final"
    /\ \E t \in DOMAIN tournaments : \E g \in DOMAIN tournaments[t] :
          /\ g \notin PlayerNames(live_players)
          /\ g \notin AllLeagueGolfers(teams)
          /\ tournaments[t][g] = Entry(0, "unknown_absent")

----------------------------------------------------------------------------
\* Position runs: a feed of competitors goes through fetch_espn_leaderboard.

FieldScores == ScoreTexts \cup {<<"+", "1">>}
FieldCompetitors == [name : SourceNames, score : FieldScores,
                     espn_status : FeedStatuses, position_display : {<<>>}]
FieldFeeds == SeqsUpTo(FieldCompetitors, MaxField)

InitField ==
    /\ teams = EmptyMap
    /\ tournaments = EmptyMap
    /\ tournament_order = <<>>
    /\ order_is_list = TRUE
    /\ live_players = <<>>
    /\ live_payout = EmptyMap
    /\ live_status = ""
    /\ data_file = NoFile
    /\ call \in FieldFeeds
    /\ ret = <<>>
    /\ pc = "idle"

FetchField ==
    /\ pc = "idle"
    /\ ret' = fetch_espn_leaderboard(call)
    /\ pc' = "returned"
    /\ UNCHANGED <<storeVars, fileVars, sessionVars, call>>

NextField == FetchField

SpecField == InitField /\ [][NextField]_vars

IsNumeric(p) == p.score_int # NonNumericScore

\* C11: any two active players of the returned list with equal numeric
\* score have the same position number, and the position display of both is
\* "T" followed by that position.
C11_EqualScoresTie ==
    pc = "returned" =>
        \A i, j \in 1..Len(ret) :
            (/\ i # j
             /\ IsActive(ret[i]) /\ IsActive(ret[j])
             /\ IsNumeric(ret[i])
             /\ ret[i].score_int = ret[j].score_int)
            => /\ ret[i].position = ret[j].position
               /\ ret[i].position_display = <<"T">> \o IntToText(ret[i].position)
               /\ ret[j].position_display = <<"T">> \o IntToText(ret[j].position)

\* a leader alone, then two players tied for second
C11_Witness ==
    /\ pc = "returned"
    /\ Len(ret) = 3
    /\ ret[1].position = 1 /\ ret[1].position_display = <<"1">>
    /\ ret[2].score_int = ret[3].score_int
    /\ IsActive(ret[2]) /\ IsActive(ret[3]) /\ IsNumeric(ret[2])
    /\ ret[2].position = 2 /\ ret[3].position = 2

\* C12 as stated: every player with a non-numeric score comes after every
\* player with a numeric score in the returned list, at a position number
\* that is not smaller.
C12_NonNumericAfterNumeric ==
    pc = "returned" =>
        \A i, j \in 1..Len(ret) :
            (~IsNumeric(ret[i]) /\ IsNumeric(ret[j]))
            => j < i /\ ret[i].position >= ret[j].position

\* C12 (amended): among the active players, every player with a non-numeric
\* score comes after every player with a numeric score, at a position number
\* that is not smaller; the non-active players come after all active
\* players, whatever their score, at a position above every active one.
C12_NonNumericAfterNumericActive ==
    pc = "returned" =>
        /\ \A i, j \in 1..Len(ret) :
              (/\ IsActive(ret[i]) /\ IsActive(ret[j])
               /\ ~IsNumeric(ret[i]) /\ IsNumeric(ret[j]))
              => j < i /\ ret[i].position >= ret[j].position
        /\ \A i, j \in 1..Len(ret) :
              (IsInactive(ret[i]) /\ IsActive(ret[j]))
              => j < i /\ ret[i].position > ret[j].position

\* the feed lists a player without a numeric score first, a scored one after
C12_Witness ==
    /\ pc = "returned"
    /\ Len(call) >= 2
    /\ call[1].espn_status = "active" /\ _score_to_int(call[1].score) = NonNumericScore
    /\ call[2].espn_status = "active" /\ _score_to_int(call[2].score) # NonNumericScore
    /\ ret[1].name = call[2].name
    /\ \E i \in 2..Len(ret) : ~IsNumeric(ret[i]) /\ IsActive(ret[i])

----------------------------------------------------------------------------
\* Article runs: a results article with varied position texts goes through
\* scrape_pga_results_article and build_results_from_espn with the payout
\* table of the import page.

PositionTexts ==
    {<<"1">>, <<"T", "2">>, <<"C", "U", "T">>, <<"c", "u", "t">>, <<"M", "C">>,
     <<"W", "D">>, <<"D", "Q">>, <<"W", "/", "D">>, <<"D", "i", "s", "q">>,
     <<"W", "D", "-", "C", "U", "T">>, <<"-">>, <<>>}
PositionRows == [name : SourceNames, position_display : PositionTexts, prize : Money]
PositionArticles == SeqsUpTo(PositionRows, MaxPlayers) \ {<<>>}

InitArticle ==
    /\ teams = EmptyMap
    /\ tournaments = EmptyMap
    /\ tournament_order = <<>>
    /\ order_is_list = TRUE
    /\ live_players = <<>>
    /\ live_payout = EmptyMap
    /\ live_status = ""
    /\ data_file = NoFile
    /\ call \in PositionArticles
    /\ ret = [players |-> <<>>, results |-> EmptyMap]
    /\ pc = "idle"

ImportArticle ==
    /\ pc = "idle"
    /\ LET result_players == scrape_pga_results_article(call)
       IN ret' = [players |-> result_players,
                  results |-> build_results_from_espn(
                                  ImportedPlayers(result_players),
                                  ImportedPayout(result_players), {"A", "C"})]
    /\ pc' = "returned"
    /\ UNCHANGED <<storeVars, fileVars, sessionVars, call>>

NextArticle == ImportArticle

SpecArticle == InitArticle /\ [][NextArticle]_vars

HasAny(text, patterns) == \E pat \in patterns : Contains(ToLower(text), pat)

\* the status the stated precedence gives a row
StatedStatus(row) ==
    IF HasAny(row.position_display, {<<"c", "u", "t">>, <<"m", "c">>}) THEN "cut"
    ELSE IF HasAny(row.position_display,
                   {<<"w", "d">>, <<"d", "q">>, <<"w", "/", "d">>, <<"d", "i", "s", "q">>})
         THEN "wd"
    ELSE IF row.prize > 0 \/ DigitsOnly(row.position_display) # <<>> THEN "scored"
    ELSE "cut"

LastRow(rows, name) ==
    rows[CHOOSE i \in 1..Len(rows) :
            /\ rows[i].name = name
            /\ \A j \in 1..Len(rows) : rows[j].name = name => j <= i]

\* C13: each row is classified from its position text, case-insensitively:
\* cut or mc gives cut; else wd, dq, w/d or disq gives wd; else scored when
\* prize > 0 or a position was parsed; else cut.  A row at 1 or T2 with a
\* positive prize is scored, a row CUT with prize 0 is cut, and the stored
\* status of a name is the status of its (last) row.
C13_ArticleStatusPrecedence ==
    pc = "returned" =>
        /\ \A i \in 1..Len(call) :
              /\ ret.players[i].status = StatedStatus(call[i])
              /\ (call[i].position_display \in {<<"1">>, <<"T", "2">>}
                    /\ call[i].prize > 0) => ret.players[i].status = "scored"
              /\ (call[i].position_display = <<"C", "U", "T">>
                    /\ call[i].prize = 0) => ret.players[i].status = "cut"
        /\ \A g \in {call[i].name : i \in 1..Len(call)} :
              ret.results[g].status = StatedStatus(LastRow(call, g))

\* a paid row at T2 and a row whose text holds a withdrawal and a cut marker
C13_Witness ==
    /\ pc = "returned"
    /\ Len(call) = 2
    /\ call[1].position_display = <<"T", "2">> /\ call[1].prize > 0
    /\ call[2].position_display = <<"W", "D", "-", "C", "U", "T">>
    /\ call[1].name # call[2].name
    /\ ret.results[call[1].name].status = "scored"
    /\ ret.results[call[2].name].status = "cut"

----------------------------------------------------------------------------
\* Live projections: compute_live_team_standings and the leaderboard tab of
\* the live display.  The teams are the items of data["teams"] in insertion
\* order, each [name, golfers].

ProjectedPrize(p, payout) ==
    IF p.espn_status \in {"cut", "wd"} \/ p.position = Unplaced THEN 0
    ELSE PayoutGet(payout, p.position)

\* cut and withdrawn players paid by position like the others
ProjectedPrize_by_position(p, payout) ==
    IF p.position = Unplaced THEN 0 ELSE PayoutGet(payout, p.position)

name_to_prize_by_position(payout, players) ==
    [g \in PlayerNames(players) |->
        ProjectedPrize_by_position(LastRecord(players, g), payout)]

\* name_to_prize[p["name"]] = ... in list order
name_to_prize(payout, players) ==
    [g \in PlayerNames(players) |->
        ProjectedPrize(LastRecord(players, g), payout)]

\* [(g, name_to_prize[g]) for g in golfers if g in name_to_prize and ... > 0]
RECURSIVE LivePairs(_, _)
LivePairs(golfers, ntp) ==
    IF golfers = <<>> THEN <<>>
    ELSE LET g == Head(golfers)
             rest == LivePairs(Tail(golfers), ntp)
         IN IF g \in DOMAIN ntp /\ ntp[g] > 0 THEN <<<<g, ntp[g]>>>> \o rest
            ELSE rest

LiveTeamResult(item, ntp) ==
    LET earnings == SortDescByPrize(LivePairs(item.golfers, ntp))
        top3 == SubSeq(earnings, 1, Min(TopN, Len(earnings)))
    IN <<item.name, SumPrizes(top3), top3>>

\* results.sort(key=lambda x: x[1], reverse=True)
compute_live_team_standings(team_items, payout, players) ==
    SortDescByPrize([i \in 1..Len(team_items) |->
                        LiveTeamResult(team_items[i],
                                       name_to_prize(payout, players))])

\* one row of the full leaderboard: the status shown and the projected prize
LeaderboardRow(p, payout) ==
    IF p.espn_status = "cut" THEN [status |-> "CUT", prize |-> 0]
    ELSE IF p.espn_status = "wd" THEN [status |-> "WD/DQ", prize |-> 0]
    ELSE IF p.position = Unplaced THEN [status |-> "playing", prize |-> 0]
    ELSE [status |-> "playing", prize |-> PayoutGet(payout, p.position)]

\* the "All prizes showing $0" expander of the leaderboard tab
ShowsDiagnostic(payout, players) ==
    LET lb_rows == [i \in 1..Len(players) |->
                       LeaderboardRow(players[i], payout)]
        active_with_prize == Cardinality({i \in 1..Len(lb_rows) : lb_rows[i].prize > 0})
        active_playing == Cardinality({i \in 1..Len(lb_rows) :
                                          lb_rows[i].status = "playing"})
    IN payout # EmptyMap /\ active_playing > 0 /\ active_with_prize = 0

\* Variant: only the positions of the players still playing are compared
ReportsMismatch_active_only(payout, players) ==
    LET espn_positions == {players[i].position : i \in {j \in 1..Len(players) :
                                                           IsActive(players[j])}}
    IN {pos \in espn_positions : pos \in DOMAIN payout} = {}

\* "No overlap between ESPN positions and payout table!" inside the expander
ReportsMismatch(payout, players) ==
    LET espn_positions == {players[i].position : i \in {j \in 1..Len(players) :
                                                           players[j].position # Unplaced}}
        overlap == {pos \in espn_positions : pos \in DOMAIN payout}
    IN overlap = {}

\* the live display is drawn only for a non-empty player list
LiveDisplayed(players, status) == players # <<>> /\ status # "Final"

\* Feeds over four golfers in a fixed order, each absent or present with a
\* score and a status; purses for one or four positions, for positions 5..6
\* only or for position 2 only; one or two teams.
LiveNames == <<"A", "B", "C", "D">>
LiveScores == {<<"-", "1">>, <<"E">>}
LiveChoices == [1..Len(LiveNames) ->
                   {"absent"} \cup (LiveScores \X {"active", "cut"})]
LiveCompetitor(name, choice) ==
    [name |-> name, score |-> choice[1], espn_status |-> choice[2],
     position_display |-> <<>>]
RECURSIVE LiveFeed(_, _)
LiveFeed(choice, k) ==
    IF k = 0 THEN <<>>
    ELSE IF choice[k] = "absent" THEN LiveFeed(choice, k - 1)
    ELSE Append(LiveFeed(choice, k - 1), LiveCompetitor(LiveNames[k], choice[k]))
LiveFeeds == {LiveFeed(c, Len(LiveNames)) : c \in LiveChoices}

LivePurses ==
    {t \in UNION {[1..n -> 1..MaxPrize] : n \in {1, 4}} :
        \A i \in DOMAIN t : i > 1 => t[i] <= t[i - 1]}
      \cup {[i \in {5, 6} |-> 1], [i \in {2} |-> 1], EmptyMap}

LiveRosters == {<<"A", "B", "C", "D">>, <<"D", "C", "B", "A">>, <<"A", "B">>}
LiveTeams ==
    {<<[name |-> "X", golfers |-> r]>> : r \in LiveRosters}
      \cup {<<[name |-> "X", golfers |-> r], [name |-> "Y", golfers |-> <<"C", "D">>]>> :
                r \in LiveRosters}

InitLive ==
    /\ teams = EmptyMap
    /\ tournaments = EmptyMap
    /\ tournament_order = <<>>
    /\ order_is_list = TRUE
    /\ live_players = <<>>
    /\ live_payout = EmptyMap
    /\ live_status = ""
    /\ data_file = NoFile
    /\ call \in [teams : LiveTeams, feed : LiveFeeds, payout : LivePurses]
    /\ ret = EmptyMap
    /\ pc = "idle"

\* Refresh Leaderboard with the payout of the session, then the live display
RefreshLive ==
    /\ pc = "idle"
    /\ LET players == fetch_espn_leaderboard(call.feed)
       IN ret' = [players |-> players,
                  displayed |-> LiveDisplayed(players, LiveMessage),
                  projected |-> name_to_prize(call.payout, players),
                  standings |-> IF call.payout # EmptyMap
                                THEN compute_live_team_standings(call.teams,
                                                                 call.payout, players)
                                ELSE <<>>,
                  diagnostic |-> /\ LiveDisplayed(players, LiveMessage)
                                 /\ ShowsDiagnostic(call.payout, players),
                  mismatch |-> /\ LiveDisplayed(players, LiveMessage)
                               /\ ShowsDiagnostic(call.payout, players)
                               /\ ReportsMismatch(call.payout, players)]
    /\ pc' = "returned"
    /\ UNCHANGED <<storeVars, fileVars, sessionVars, call>>

NextLive == RefreshLive

SpecLive == InitLive /\ [][NextLive]_vars

LeagueOf(team_items) == UNION {RosterSet(team_items[i].golfers) : i \in 1..Len(team_items)}

\* C14: with a payout table loaded and no competitor of the feed active,
\* every league golfer's projected prize is 0 and the all-zero diagnostic is
\* shown.
C14_AllZeroIsFlagged ==
    (/\ pc = "returned"
     /\ call.payout # EmptyMap
     /\ \A i \in 1..Len(call.feed) : call.feed[i].espn_status # "active")
    => /\ \A g \in LeagueOf(call.teams) :
             g \in DOMAIN ret.projected => ret.projected[g] = 0
       /\ \A i \in 1..Len(ret.standings) : ret.standings[i][2] = 0
       /\ ret.diagnostic

\* C18: a golfer's projected prize is 0 when cut, withdrawn or unplaced,
\* else the payout of the golfer's position (0 when the table lacks it), and
\* each team's projected total and contributing list are those of
\* get_team_earnings_for_tournament over the map golfer -> projected prize.
C18_ProjectionUsesTopThree ==
    (pc = "returned" /\ call.payout # EmptyMap) =>
        /\ \A i \in 1..Len(ret.players) :
              LET p == ret.players[i]
              IN ret.projected[p.name] =
                    IF p.espn_status \in {"cut", "wd"} \/ p.position = Unplaced THEN 0
                    ELSE IF p.position \in DOMAIN call.payout
                         THEN call.payout[p.position] ELSE 0
        /\ Len(ret.standings) = Len(call.teams)
        /\ \A i \in 1..Len(call.teams) :
              \E j \in 1..Len(ret.standings) :
                 LET e == get_team_earnings_for_tournament(
                              call.teams[i].golfers,
                              [g \in DOMAIN ret.projected |->
                                  Entry(ret.projected[g], "scored")])
                 IN ret.standings[j] = <<call.teams[i].name, e.total, e.top3>>

\* four paid golfers on a roster, one left out of the top three, and a cut
\* golfer at a paying position
C18_Witness ==
    /\ pc = "returned"
    /\ \E j \in 1..Len(ret.standings) :
          /\ Len(ret.standings[j][3]) = TopN
          /\ \E g \in DOMAIN ret.projected :
                /\ ret.projected[g] > 0
                /\ \A k \in 1..TopN : ret.standings[j][3][k][1] # g
    /\ Len(call.teams) = 2

----------------------------------------------------------------------------
\* Backup runs: Download Backup in a store state, then Upload backup of
\* the downloaded file.  The store states are those the operator actions
\* build: up to two teams, up to two tournaments in either order, result
\* entries of every status, a fresh store with the {} order.

BackupTeams ==
    {EmptyMap, [t \in {"X"} |-> <<"A", "B">>],
     [t \in {"X", "Y"} |-> IF t = "X" THEN <<"A">> ELSE <<"B", "A">>]}
BackupResults == UNION {[S -> [prize : Money, status : Statuses]] : S \in SUBSET SourceNames}
BackupTournaments ==
    {EmptyMap}
      \cup {[t \in {"T1"} |-> r] : r \in BackupResults}
      \cup {[t \in {"T1", "T2"} |-> IF t = "T1" THEN r ELSE r2] :
                r \in BackupResults,
                r2 \in {EmptyMap, [g \in {"B"} |-> Entry(1, "scored")]}}
OrdersOf(tn) ==
    {o \in SeqsUpTo(DOMAIN tn, Cardinality(DOMAIN tn)) :
        /\ Len(o) = Cardinality(DOMAIN tn)
        /\ \A t \in DOMAIN tn : InSeq(t, o)}
BackupPayouts == {EmptyMap, <<2, 1>>}

InitBackup ==
    /\ teams \in BackupTeams
    /\ tournaments \in BackupTournaments
    /\ \/ order_is_list = TRUE /\ tournament_order \in OrdersOf(tournaments)
       \/ order_is_list = FALSE /\ tournament_order = <<>> /\ tournaments = EmptyMap
    /\ live_players = <<>>
    /\ live_payout = EmptyMap
    /\ live_status = ""
    /\ data_file = IF order_is_list \/ teams # EmptyMap
                   THEN WrittenFile([teams |-> teams, tournaments |-> tournaments,
                                     tournament_order |-> tournament_order,
                                     order_is_list |-> order_is_list,
                                     payout |-> EmptyMap])
                   ELSE NoFile
    /\ \E payout \in BackupPayouts :
          call = [teams |-> teams, tournaments |-> tournaments,
                  tournament_order |-> tournament_order,
                  order_is_list |-> order_is_list, payout |-> payout]
    /\ ret = EmptyMap
    /\ pc = "idle"

DownloadBackup ==
    /\ pc = "idle"
    /\ ret' = json_dumps(call)
    /\ pc' = "downloaded"
    /\ UNCHANGED <<storeVars, fileVars, sessionVars, call>>

UploadDownloaded ==
    /\ pc = "downloaded"
    /\ Restore(ret)
    /\ pc' = "restored"
    /\ UNCHANGED <<sessionVars, call, ret>>

NextBackup == DownloadBackup \/ UploadDownloaded

SpecBackup == InitBackup /\ [][NextBackup]_vars

C15_WitnessFresh ==
    pc = "restored" /\ ~order_is_list /\ teams # EmptyMap

----------------------------------------------------------------------------
\* Payout-table extractor: scrape_pga_payout_table, from the tables of the
\* document on.  A table is a sequence of rows, a row the sequence of its
\* cell texts; column numbers count from 0 as in the code.

Cell(row, idx) == row[idx + 1]

\* re.search(r"\d{n,}", txt)
HasDigitRun(txt, n) ==
    \E i \in 1..(Len(txt) - n + 1) : \A j \in i..(i + n - 1) : IsDigit(txt[j])

\* rows[1:6]
SampleRows(rows) == SubSeq(rows, 2, Min(6, Len(rows)))

LooksLikeMoney(row, idx) ==
    \/ Contains(Cell(row, idx), <<"$">>)
    \/ HasDigitRun(Cell(row, idx), 5) /\ idx > 0

HasMoneyCell(row) == \E idx \in 0..(Len(row) - 1) : LooksLikeMoney(row, idx)

\* the first qualifying cell of the first sample row that has one;
\* -1 stands for None
DetectedColumn(rows) ==
    LET sample == SampleRows(rows)
        hits == {i \in 1..Len(sample) : HasMoneyCell(sample[i])}
    IN IF hits = {} THEN -1
       ELSE LET r == sample[CHOOSE i \in hits : \A j \in hits : i <= j]
            IN CHOOSE idx \in 0..(Len(r) - 1) :
                  /\ LooksLikeMoney(r, idx)
                  /\ \A k \in 0..(idx - 1) : ~LooksLikeMoney(r, k)

FallbackFits(rows, col) ==
    \E i \in 1..Len(SampleRows(rows)) :
        /\ col < Len(SampleRows(rows)[i])
        /\ Len(DigitsOnly(Cell(SampleRows(rows)[i], col))) >= 4

MoneyColumn(rows) ==
    IF DetectedColumn(rows) # -1 THEN DetectedColumn(rows)
    ELSE IF FallbackFits(rows, 1) THEN 1
    ELSE IF FallbackFits(rows, 2) THEN 2
    ELSE -1

HeaderWords == {<<"p", "o", "s", ".">>, <<"p", "o", "s">>,
                <<"p", "o", "s", "i", "t", "i", "o", "n">>,
                <<"f", "i", "n", "i", "s", "h">>, <<"#">>}

IsAmountChar(c) == IsDigit(c) \/ c = "."

\* float(amount_clean) for the texts without a decimal point; a text that
\* float() rejects gives -1
AmountOf(txt) ==
    LET amount_clean == SelectSeq(txt, IsAmountChar)
    IN IF DigitsOnly(amount_clean) = <<>> THEN -1
       ELSE DigitsToInt(DigitsOnly(amount_clean))

\* the loop over the rows of one table, first k rows done
RECURSIVE TableEntries(_, _, _, _)
TableEntries(rows, money_col, payout_map, k) ==
    IF k = 0 THEN payout_map
    ELSE LET done == TableEntries(rows, money_col, payout_map, k - 1)
             cells == rows[k]
             pos_clean == DigitsOnly(Cell(cells, 0))
         IN IF Len(cells) <= money_col THEN done
            ELSE IF ToLower(Cell(cells, 0)) \in HeaderWords THEN done
            ELSE IF pos_clean = <<>> THEN done
            ELSE IF AmountOf(Cell(cells, money_col)) > 0
                    /\ DigitsToInt(pos_clean) \notin DOMAIN done
                 THEN Put(done, DigitsToInt(pos_clean), AmountOf(Cell(cells, money_col)))
                 ELSE done

ScanTable(rows, payout_map) ==
    IF Len(rows) < 3 THEN payout_map
    ELSE IF MoneyColumn(rows) = -1 THEN payout_map
    ELSE TableEntries(rows, MoneyColumn(rows), payout_map, Len(rows))

\* every table scanned, without stopping at the first that yields entries
RECURSIVE ScanAllTables(_, _)
ScanAllTables(tables, k) ==
    IF k = 0 THEN EmptyMap ELSE ScanTable(tables[k], ScanAllTables(tables, k - 1))

scrape_pga_payout_table_all(tables) ==
    LET payout_map == ScanAllTables(tables, Len(tables))
    IN [raised |-> payout_map = EmptyMap, payout_map |-> payout_map]

\* for table in tables: ...; if payout_map: break
RECURSIVE ScanTables(_, _)
ScanTables(tables, k) ==
    IF k = 0 THEN EmptyMap
    ELSE IF ScanTables(tables, k - 1) # EmptyMap THEN ScanTables(tables, k - 1)
    ELSE ScanTable(tables[k], EmptyMap)

scrape_pga_payout_table(tables) ==
    LET payout_map == ScanTables(tables, Len(tables))
    IN [raised |-> payout_map = EmptyMap, payout_map |-> payout_map]

\* Payout runs: documents of up to MaxTables tables, each a header row and
\* up to two data rows.
PayoutHeader == <<<<"P", "o", "s">>, <<"M", "o", "n", "e", "y">>>>
PayoutDataRows ==
    {<<<<"1">>, <<"$", "2">>>>,
     <<<<"T", "2">>, <<"$", "1">>>>,
     <<<<"3">>, <<"$", "0">>>>,
     <<<<"C", "U", "T">>, <<"$", "1">>>>,
     <<<<"1">>, <<"1", "0", "0", "0">>>>,
     <<<<"2">>, <<"-">>>>}
PayoutTables == {<<PayoutHeader>> \o d : d \in SeqsUpTo(PayoutDataRows, 2)}
PayoutDocuments == SeqsUpTo(PayoutTables, MaxTables)

InitPayout ==
    /\ teams = EmptyMap
    /\ tournaments = EmptyMap
    /\ tournament_order = <<>>
    /\ order_is_list = TRUE
    /\ live_players = <<>>
    /\ live_payout = EmptyMap
    /\ live_status = ""
    /\ data_file = NoFile
    /\ call \in PayoutDocuments
    /\ ret = EmptyMap
    /\ pc = "idle"

ScrapePayout ==
    /\ pc = "idle"
    /\ ret' = scrape_pga_payout_table(call)
    /\ pc' = "returned"
    /\ UNCHANGED <<storeVars, fileVars, sessionVars, call>>

NextPayout == ScrapePayout

SpecPayout == InitPayout /\ [][NextPayout]_vars

\* what one table yields on its own
Yield(table) == ScanTable(table, EmptyMap)
Yielding(tables) == {i \in 1..Len(tables) : Yield(tables[i]) # EmptyMap}

\* C16: the extractor raises exactly when no table yields an entry;
\* otherwise it returns a non-empty table whose amounts are all > 0 and whose
\* entries are those of the first table, in document order, that yields one.
C16_FirstYieldingTableOrError ==
    pc = "returned" =>
        /\ ret.raised <=> Yielding(call) = {}
        /\ ~ret.raised =>
              /\ ret.payout_map # EmptyMap
              /\ \A pos \in DOMAIN ret.payout_map : ret.payout_map[pos] > 0
              /\ \E i \in Yielding(call) :
                    /\ \A j \in Yielding(call) : i <= j
                    /\ ret.payout_map = Yield(call[i])

\* a first table that yields nothing, then two tables with different entries
C16_Witness ==
    /\ pc = "returned"
    /\ Len(call) >= 2
    /\ Yield(call[1]) = EmptyMap
    /\ ~ret.raised
    /\ ret.payout_map = (2 :> 1)

\* two yielding tables, the second with a position the first lacks
C16_WitnessTwo ==
    /\ pc = "returned"
    /\ Len(call) = 2
    /\ Yield(call[1]) = (1 :> 2)
    /\ Yield(call[2]) = (2 :> 1)
    /\ ret.payout_map = (1 :> 2)

----------------------------------------------------------------------------
\* Season standings: get_ordered_tournaments and compute_standings over a
\* data document [teams, tournaments, tournament_order, order_is_list].

\* list(data["tournaments"].keys()): the tournament names in insertion
\* order, taken here as T1 before T2
TournamentKeys(tn) == SelectSeq(<<"T1", "T2">>, LAMBDA t : t \in DOMAIN tn)

\* order + [t for t in all_t if t not in order]; defined for a list order
get_ordered_tournaments(data) ==
    data.tournament_order
      \o SelectSeq(TournamentKeys(data.tournaments),
                   LAMBDA t : ~InSeq(t, data.tournament_order))

\* data["tournaments"].get(t_name, {}).get("results", {})
ResultsOf(data, t_name) ==
    IF t_name \in DOMAIN data.tournaments THEN data.tournaments[t_name] ELSE EmptyMap

\* one team's standings entry after the first k tournaments of the loop
RECURSIVE TeamStanding(_, _, _, _)
TeamStanding(golfers, data, ordered, k) ==
    IF k = 0 THEN [total |-> 0, tournaments |-> EmptyMap]
    ELSE LET before == TeamStanding(golfers, data, ordered, k - 1)
             e == get_team_earnings_for_tournament(golfers, ResultsOf(data, ordered[k]))
         IN [total |-> before.total + e.total,
             tournaments |-> Put(before.tournaments, ordered[k], e)]

\* dict + list raises TypeError when tournament_order is the {} of a fresh store
compute_standings(data) ==
    IF ~data.order_is_list THEN [raised |-> TRUE, standings |-> EmptyMap]
    ELSE [raised |-> FALSE,
          standings |->
             [tn \in DOMAIN data.teams |->
                 TeamStanding(data.teams[tn], data, get_ordered_tournaments(data),
                              Len(get_ordered_tournaments(data)))]]

\* Standings runs: the Standings page on a store with at least one team.
StandingsStores ==
    {d \in [teams : BackupTeams \ {EmptyMap}, tournaments : BackupTournaments,
            tournament_order : SeqsUpTo({"T1", "T2"}, 2), order_is_list : BOOLEAN] :
        \/ d.order_is_list /\ d.tournament_order \in OrdersOf(d.tournaments)
        \/ /\ ~d.order_is_list
           /\ d.tournament_order = <<>>
           /\ d.tournaments \in {EmptyMap, [t \in {"T1"} |-> EmptyMap]}}

InitStandings ==
    /\ teams = EmptyMap
    /\ tournaments = EmptyMap
    /\ tournament_order = <<>>
    /\ order_is_list = TRUE
    /\ live_players = <<>>
    /\ live_payout = EmptyMap
    /\ live_status = ""
    /\ data_file = NoFile
    /\ call \in StandingsStores
    /\ ret = EmptyMap
    /\ pc = "idle"

ComputeStandings ==
    /\ pc = "idle"
    /\ ret' = compute_standings(call)
    /\ pc' = "returned"
    /\ UNCHANGED <<storeVars, fileVars, sessionVars, call>>

NextStandings == ComputeStandings

SpecStandings == InitStandings /\ [][NextStandings]_vars

RECURSIVE SumTotals(_)
SumTotals(breakdown) ==
    IF DOMAIN breakdown = {} THEN 0
    ELSE LET t == CHOOSE x \in DOMAIN breakdown : TRUE
         IN breakdown[t].total + SumTotals(Remove(breakdown, t))

\* C17: the standings are computed, and for every team the breakdown has
\* exactly one entry per tournament, equal to
\* get_team_earnings_for_tournament(roster, results of that tournament), and
\* the team's total is the sum of the totals of its breakdown.
C17_StandingsAreAFold ==
    pc = "returned" =>
        /\ ~ret.raised
        /\ DOMAIN ret.standings = DOMAIN call.teams
        /\ \A tn \in DOMAIN call.teams :
              /\ DOMAIN ret.standings[tn].tournaments = DOMAIN call.tournaments
              /\ \A t \in DOMAIN call.tournaments :
                    ret.standings[tn].tournaments[t] =
                        get_team_earnings_for_tournament(call.teams[tn],
                                                         call.tournaments[t])
              /\ ret.standings[tn].total = SumTotals(ret.standings[tn].tournaments)

----------------------------------------------------------------------------
\* Season order of the store.

NoDuplicates(seq) ==
    \A i, j \in 1..Len(seq) : seq[i] = seq[j] => i = j

----------------------------------------------------------------------------
\* Frame of the field-status actions of the Tournaments page.

\* every entry of tournament t that is not unknown_absent is the same after
\* the step
ClassifiedKept(t) ==
    \A g \in DOMAIN tournaments[t] :
        get_status(tournaments[t][g]) # "unknown_absent" =>
            /\ g \in DOMAIN tournaments'[t]
            /\ tournaments'[t][g] = tournaments[t][g]

\* C20: a field-status action (Auto-classify or Re-classify from a
\* leaderboard) changes only entries that are unknown_absent when it is
\* invoked: every entry classified scored, cut, wd or not_entered keeps its
\* status and prize, a scored league golfer with prize 0 included.
C20_FieldStatusChangesOnlyUnknown ==
    [][\A t \in TournamentNames :
          (\E lb \in LbMaps(SourceNames) :
               AutoClassify(t, lb) \/ Reclassify(t, lb))
          => ClassifiedKept(t)]_vars

----------------------------------------------------------------------------
\* Status of a source player in the reconciled map.

----------------------------------------------------------------------------
\* In-field status of a competitor of the live feed (the status block of
\* fetch_espn_leaderboard).  field_values are the values of the status
\* fields in the order the code reads them, <<>> for a field that is
\* missing or blank; is_active is c.get("active", True).

\* status_strings: the non-blank values, lower-cased
StatusStrings(field_values) ==
    LET present == SelectSeq(field_values, LAMBDA val : val # <<>>)
    IN [i \in 1..Len(present) |-> ToLower(present[i])]

\* " ".join(status_strings)
RECURSIVE JoinWithSpace(_)
JoinWithSpace(strings) ==
    IF strings = <<>> THEN <<>>
    ELSE IF Len(strings) = 1 THEN strings[1]
    ELSE strings[1] \o <<" ">> \o JoinWithSpace(Tail(strings))

WdMarkers == {<<"w", "d">>, <<"w", "i", "t", "h", "d", "r", "a", "w">>,
              <<"w", "i", "t", "h", "d", "r", "e", "w">>, <<"d", "q">>,
              <<"d", "i", "s", "q", "u", "a", "l", "i", "f">>}
CutMarkers == {<<"c", "u", "t">>, <<"m", "c">>, <<"m", "d", "f">>}

competitor_status(field_values, is_active) ==
    LET combined_status == JoinWithSpace(StatusStrings(field_values))
    IN IF \E x \in WdMarkers : Contains(combined_status, x) THEN "wd"
       ELSE IF \E x \in CutMarkers : Contains(combined_status, x) THEN "cut"
       ELSE IF ~is_active /\ combined_status # <<>> THEN "cut"
       ELSE "active"

\* Status runs: the status fields of one competitor are classified.
FeedStatusTexts ==
    {<<>>, <<"S", "T", "A", "T", "U", "S", "_", "C", "U", "T">>, <<"M", "C">>,
     <<"M", "D", "F">>, <<"W", "D">>, <<"W", "i", "t", "h", "d", "r", "e", "w">>,
     <<"D", "Q">>, <<"F">>, <<"i", "n">>, <<"p", "o", "s", "t">>}
FeedStatusFields == [1..2 -> FeedStatusTexts]

InitFeedStatus ==
    /\ teams = EmptyMap
    /\ tournaments = EmptyMap
    /\ tournament_order = <<>>
    /\ order_is_list = TRUE
    /\ live_players = <<>>
    /\ live_payout = EmptyMap
    /\ live_status = ""
    /\ data_file = NoFile
    /\ call \in [field_values : FeedStatusFields, is_active : BOOLEAN]
    /\ ret = ""
    /\ pc = "idle"

ClassifyCompetitor ==
    /\ pc = "idle"
    /\ ret' = competitor_status(call.field_values, call.is_active)
    /\ pc' = "returned"
    /\ UNCHANGED <<storeVars, fileVars, sessionVars, call>>

NextFeedStatus == ClassifyCompetitor

SpecFeedStatus == InitFeedStatus /\ [][NextFeedStatus]_vars

Indicates(field_values, markers) ==
    \E i \in 1..Len(field_values) :
        \E x \in markers : Contains(ToLower(field_values[i]), x)

\* C22: the in-field status is wd when a status text indicates withdrawal
\* or disqualification, otherwise cut when a status text indicates cut,
\* missed cut or MDF, otherwise cut when the active flag is false (with or
\* without status text), and active in the remaining case.
C22_InFieldStatus ==
    pc = "returned" =>
        ret = IF Indicates(call.field_values, WdMarkers) THEN "wd"
              ELSE IF Indicates(call.field_values, CutMarkers) THEN "cut"
              ELSE IF ~call.is_active THEN "cut"
              ELSE "active"

----------------------------------------------------------------------------
\* Players out of the field in the list of fetch_espn_leaderboard.

\* C23: the non-active players come after all active players, share one
\* position number that is greater than the position number of every active
\* player, and one without a position label from the feed is displayed as
\* CUT when its status is cut and as WD otherwise.
C23_InactiveAtSharedBottom ==
    pc = "returned" =>
        LET n == Len(SelectSeq(ret, IsActive))
            fed == SelectSeq(call, IsInactive)
        IN /\ \A i \in 1..Len(ret) : IsActive(ret[i]) <=> i <= n
           /\ \A i, j \in 1..Len(ret) :
                 /\ (IsInactive(ret[i]) /\ IsInactive(ret[j]))
                        => ret[i].position = ret[j].position
                 /\ (IsActive(ret[i]) /\ IsInactive(ret[j]))
                        => ret[i].position < ret[j].position
           /\ Len(ret) = n + Len(fed)
           /\ \A i \in 1..Len(fed) :
                 fed[i].position_display = <<>> =>
                    ret[n + i].position_display =
                        IF ret[n + i].espn_status = "cut"
                        THEN <<"C", "U", "T">> ELSE <<"W", "D">>

\* a withdrawn and a cut player fed before a player still playing
C23_Witness ==
    /\ pc = "returned"
    /\ Len(call) = 3
    /\ call[1].espn_status = "wd"
    /\ call[2].espn_status = "cut"
    /\ call[3].espn_status = "active"
    /\ ret[1].position = 1
    /\ ret[2].position = 2 /\ ret[2].position_display = <<"W", "D">>
    /\ ret[3].position = 2 /\ ret[3].position_display = <<"C", "U", "T">>

----------------------------------------------------------------------------
\* Competition ranking of the players still playing.

LowerScored(players, p) ==
    {j \in 1..Len(players) : IsActive(players[j]) /\ players[j].score_int < p.score_int}

\* C30: the position number of every active player is 1 plus the number of
\* active players with a strictly lower score, the first active player has
\* position 1, and position numbers never decrease along the list.
C30_CompetitionRanking ==
    pc = "returned" =>
        /\ \A i \in 1..Len(ret) :
              IsActive(ret[i]) =>
                 ret[i].position = 1 + Cardinality(LowerScored(ret, ret[i]))
        /\ (ret # <<>> /\ IsActive(ret[1])) => ret[1].position = 1
        /\ \A i \in 1..(Len(ret) - 1) : ret[i].position <= ret[i + 1].position

\* two players tied at 1, the next one at 3
C30_Witness ==
    /\ pc = "returned"
    /\ Len(ret) = 3
    /\ \A i \in 1..3 : IsActive(ret[i])
    /\ ret[1].position = 1
    /\ ret[2].position = 1
    /\ ret[3].position = 3
    /\ ret[3].score_int = 1

----------------------------------------------------------------------------
\* Cumulative history: compute_earnings_history over a data document
\* [teams, team_keys, tournaments, tournament_order, order_is_list], where
\* team_keys is list(data["teams"].keys()), the teams in insertion order.

\* Variant: the total of the k-th tournament alone
TournamentTotal(data, team_name, ordered, k) ==
    IF k = 0 THEN 0
    ELSE get_team_earnings_for_tournament(data.teams[team_name],
                                          ResultsOf(data, ordered[k])).total

\* cumulative[team_name] after the first k tournaments of the loop
RECURSIVE Cumulative(_, _, _, _)
Cumulative(data, team_name, ordered, k) ==
    IF k = 0 THEN 0
    ELSE Cumulative(data, team_name, ordered, k - 1)
           + get_team_earnings_for_tournament(data.teams[team_name],
                                              ResultsOf(data, ordered[k])).total

\* Variant: teams with equal money share the rank of the first of them
HistoryRanks_shared(teams_list, cumulative) ==
    [t \in RosterSet(teams_list) |->
        1 + Cardinality({u \in RosterSet(teams_list) : cumulative[u] > cumulative[t]})]

\* sorted(teams, key=lambda t: cumulative[t], reverse=True), then
\* {t: i + 1 for i, t in enumerate(sorted_t)}
HistoryRanks(teams_list, cumulative) ==
    LET sorted_t == SortDescByPrize([i \in 1..Len(teams_list) |->
                                        <<teams_list[i], cumulative[teams_list[i]]>>])
    IN [t \in RosterSet(teams_list) |->
           CHOOSE i \in 1..Len(sorted_t) : sorted_t[i][1] = t]

HistoryPoint(data, team_name, ordered, k) ==
    [tournament |-> ordered[k],
     cumulative |-> Cumulative(data, team_name, ordered, k),
     rank |-> HistoryRanks(data.team_keys,
                           [t \in DOMAIN data.teams |->
                               Cumulative(data, t, ordered, k)])[team_name]]

compute_earnings_history(data) ==
    LET ordered == get_ordered_tournaments(data)
    IN IF ordered = <<>> THEN EmptyMap
       ELSE [team_name \in DOMAIN data.teams |->
                [k \in 1..Len(ordered) |-> HistoryPoint(data, team_name, ordered, k)]]

\* The Standings page: compute_standings, then the chart when there is a
\* tournament and there are two teams.
StandingsPage(data) ==
    LET s == compute_standings(data)
        charted == /\ ~s.raised
                   /\ Len(get_ordered_tournaments(data)) >= 1
                   /\ Cardinality(DOMAIN data.teams) >= 2
    IN [raised |-> s.raised, standings |-> s.standings, charted |-> charted,
        history |-> IF charted THEN compute_earnings_history(data) ELSE EmptyMap]

\* History runs: stores of one to three teams in any insertion order, up to
\* two tournaments in either season order, and the fresh store.
HistoryRosters == [t \in {"X", "Y", "Z"} |->
                      CASE t = "X" -> <<"A">> [] t = "Y" -> <<"B">> [] OTHER -> <<"B", "A">>]
HistoryTeamKeys ==
    {k \in SeqsUpTo({"X", "Y", "Z"}, 3) : k # <<>> /\ NoDuplicates(k)}
HistoryResults ==
    {[g \in SourceNames |-> Entry(m[g], IF m[g] > 0 THEN "scored" ELSE "cut")] :
        m \in [SourceNames -> Money]}
HistoryTournaments ==
    {EmptyMap}
      \cup {[t \in {"T1"} |-> r] : r \in HistoryResults}
      \cup {[t \in {"T1", "T2"} |-> IF t = "T1" THEN r ELSE r2] :
                r \in HistoryResults, r2 \in HistoryResults}
HistoryStores ==
    {[teams |-> [t \in RosterSet(k) |-> HistoryRosters[t]], team_keys |-> k,
      tournaments |-> tn, tournament_order |-> o, order_is_list |-> TRUE] :
        k \in HistoryTeamKeys, tn \in HistoryTournaments,
        o \in SeqsUpTo({"T1", "T2"}, 2)}
      \cup {[teams |-> [t \in RosterSet(k) |-> HistoryRosters[t]], team_keys |-> k,
             tournaments |-> EmptyMap, tournament_order |-> <<>>,
             order_is_list |-> FALSE] : k \in HistoryTeamKeys}

InitHistory ==
    /\ teams = EmptyMap
    /\ tournaments = EmptyMap
    /\ tournament_order = <<>>
    /\ order_is_list = TRUE
    /\ live_players = <<>>
    /\ live_payout = EmptyMap
    /\ live_status = ""
    /\ data_file = NoFile
    /\ call \in HistoryStores
    /\ call.order_is_list => call.tournament_order \in OrdersOf(call.tournaments)
    /\ ret = EmptyMap
    /\ pc = "idle"

ShowStandings ==
    /\ pc = "idle"
    /\ ret' = StandingsPage(call)
    /\ pc' = "returned"
    /\ UNCHANGED <<storeVars, fileVars, sessionVars, call>>

NextHistory == ShowStandings

SpecHistory == InitHistory /\ [][NextHistory]_vars

\* sum of the standings totals of a team over the first k tournaments
RECURSIVE SumFirst(_, _, _)
SumFirst(breakdown, ordered, k) ==
    IF k = 0 THEN 0
    ELSE SumFirst(breakdown, ordered, k - 1) + breakdown[ordered[k]].total

\* C24: the charted history has one point per team per tournament, in
\* season order; the cumulative value of the k-th point is the sum of the
\* team's tournament totals over the first k tournaments, the values never
\* decrease and the last one is the team's total in the standings.
C24_HistoryIsRunningTotal ==
    (pc = "returned" /\ ret.charted) =>
        LET ordered == get_ordered_tournaments(call)
        IN /\ DOMAIN ret.history = DOMAIN call.teams
           /\ \A tn \in DOMAIN call.teams :
                 LET h == ret.history[tn]
                 IN /\ Len(h) = Len(ordered)
                    /\ \A k \in 1..Len(h) :
                          /\ h[k].tournament = ordered[k]
                          /\ h[k].cumulative =
                                SumFirst(ret.standings[tn].tournaments, ordered, k)
                          /\ k > 1 => h[k - 1].cumulative <= h[k].cumulative
                    /\ h[Len(h)].cumulative = ret.standings[tn].total

\* two tournaments that both pay the team
C24_Witness ==
    /\ pc = "returned"
    /\ ret.charted
    /\ Len(ret.history["X"]) = 2
    /\ ret.history["X"][1].cumulative = 1
    /\ ret.history["X"][2].cumulative = 2
    /\ ret.standings["X"].total = 2

\* C25: after each tournament the ranks are a permutation of 1..N; a team
\* with more cumulative money has a smaller rank number, and teams with equal
\* cumulative money are ranked in the insertion order of the teams.
C25_RanksArePermutation ==
    (pc = "returned" /\ ret.charted) =>
        \A k \in 1..Len(get_ordered_tournaments(call)) :
            LET keys == call.team_keys
                pt(i) == ret.history[keys[i]][k]
            IN /\ {pt(i).rank : i \in 1..Len(keys)} = 1..Len(keys)
               /\ \A i, j \in 1..Len(keys) :
                     /\ pt(i).cumulative > pt(j).cumulative => pt(i).rank < pt(j).rank
                     /\ (pt(i).cumulative = pt(j).cumulative /\ i < j)
                           => pt(i).rank < pt(j).rank

\* Y was added before X and both have the same money: Y is ranked first
C25_Witness ==
    /\ pc = "returned"
    /\ ret.charted
    /\ call.team_keys = <<"Y", "X">>
    /\ ret.history["Y"][1].cumulative = 1
    /\ ret.history["X"][1].cumulative = 1
    /\ ret.history["Y"][1].rank = 1
    /\ ret.history["X"][1].rank = 2

----------------------------------------------------------------------------
\* The data file against the store in memory.

\* the file holds the teams, the tournaments, the season order and the
\* cached live payout of the session
Persisted ==
    /\ data_file.written
    /\ data_file.data = [teams |-> teams, tournaments |-> tournaments,
                         tournament_order |-> tournament_order,
                         order_is_list |-> order_is_list, payout |-> live_payout]

\* a step that changes the teams, the tournaments, the season order or the
\* cached live payout, or replaces the store by a backup
Mutates ==
    \/ <<teams, tournaments, tournament_order, live_payout>>'
          # <<teams, tournaments, tournament_order, live_payout>>
    \/ data_file' # data_file

\* Create Tournament on the {} season order ends in an error
EndsInError == ~order_is_list /\ ~order_is_list' /\ tournaments' # tournaments

\* C26: after every completed mutating operator action the data file equals
\* the store in memory in full: teams, tournaments, season order and cached
\* live payout.
C26_FileEqualsMemory ==
    [][(Mutates /\ ~EndsInError) => Persisted']_vars

----------------------------------------------------------------------------
\* The all-zero diagnostic of the live display.

C27_WitnessMismatch ==
    /\ pc = "returned"
    /\ DOMAIN call.payout = {5, 6}
    /\ \E i \in 1..Len(ret.players) : ret.players[i].espn_status = "active"
    /\ ret.diagnostic
    /\ ret.mismatch

----------------------------------------------------------------------------
\* How an entry comes to say not_entered.

\* golfer g has status not_entered in tournament t after the step and did
\* not have it before
BecomesNotEntered(t, g) ==
    /\ t \in DOMAIN tournaments'
    /\ g \in DOMAIN tournaments'[t]
    /\ get_status(tournaments'[t][g]) = "not_entered"
    /\ ~(/\ t \in DOMAIN tournaments
          /\ g \in DOMAIN tournaments[t]
          /\ get_status(tournaments[t][g]) = "not_entered")

\* the step is a field-status reconciliation that does not find g in the
\* field, or the operator chooses not_entered for g
ChosenNotEntered(t, g) ==
    \/ \E lb \in LbMaps(SourceNames) :
          g \notin DOMAIN lb /\ (AutoClassify(t, lb) \/ Reclassify(t, lb))
    \/ \E u \in ClassifyUpdates(t) :
          /\ g \in DOMAIN u
          /\ u[g] = "not_entered"
          /\ (ManualClassify(t, u) \/ ReviewUnknowns(t, u))
    \/ \E e \in FormEdits(SourceNames) :
          g \in DOMAIN e /\ e[g].status = "not_entered" /\ SaveResults(t, e)

\* C28: a league golfer's entry gets status not_entered only in a
\* field-status reconciliation that finds the golfer absent from the field
\* or by the operator's choice of not_entered for that golfer; league
\* golfers missing from a result map are never defaulted to not_entered.
C28_NotEnteredIsNeverSilent ==
    [][\A t \in TournamentNames : \A g \in AllLeagueGolfers(teams') :
          BecomesNotEntered(t, g) => ChosenNotEntered(t, g)]_vars

----------------------------------------------------------------------------
\* Entries of a result map across the operator actions.

\* the step replaces the result map of t as a unit: an import saved under
\* its name, or a restored backup
ReplacesWholeMap(t) ==
    \/ SaveCompleted(t)
    \/ SaveLive(t)
    \/ \E b \in BackupFiles : UploadBackup(json_dumps(b))

\* C29: while a tournament exists, no operator action other than a
\* re-import of the whole map removes an entry of its result map, entries
\* of golfers on no roster included.
C29_NoPartialDeletion ==
    [][\A t \in TournamentNames :
          (/\ t \in DOMAIN tournaments
           /\ t \in DOMAIN tournaments'
           /\ ~ReplacesWholeMap(t))
          => DOMAIN tournaments[t] \subseteq DOMAIN tournaments'[t]]_vars

====
